---------------------------- MODULE Spec2Model ----------------------------
(***************************************************************************)
(* Model of the resume text pipeline of src/lib/fileProcessor.ts:          *)
(*   parseResumeFile      buffer + media type -> text (external decoders)  *)
(*   extractDataFromText  text -> personal_info, experience, skills,       *)
(*                        education                                        *)
(* Strings are sequences of one-character strings, so that trimming,       *)
(* lower-casing, substring search and the regular expressions of the       *)
(* source are computed character by character.                             *)
(***************************************************************************)
EXTENDS Integers, Sequences, FiniteSets, TLC

(***************************************************************************)
(* Bounds of the model.                                                    *)
(***************************************************************************)
\* number of raw lines of an input text (single-call specification)
MaxLines == 3
\* number of raw lines of an input text (repeated-call specification)
MaxLinesRepeat == 2

\* the longest document of the section specification, in lines
MaxLinesSections == 4

\* the longest document of the entry specification, in lines
MaxLinesEntries == 4

\* how many temporary files the disk holds at most
MaxTempFiles == 1

(***************************************************************************)
(* Characters and the character classes of JavaScript regular expressions. *)
(***************************************************************************)
UpperLetters ==
  << "A","B","C","D","E","F","G","H","I","J","K","L","M",
     "N","O","P","Q","R","S","T","U","V","W","X","Y","Z" >>

LowerLetters ==
  << "a","b","c","d","e","f","g","h","i","j","k","l","m",
     "n","o","p","q","r","s","t","u","v","w","x","y","z" >>

UpperSet ==
  { "A","B","C","D","E","F","G","H","I","J","K","L","M",
    "N","O","P","Q","R","S","T","U","V","W","X","Y","Z" }

LowerSet ==
  { "a","b","c","d","e","f","g","h","i","j","k","l","m",
    "n","o","p","q","r","s","t","u","v","w","x","y","z" }

\* \d
DigitChars == { "0","1","2","3","4","5","6","7","8","9" }

\* \w  (no u flag: ASCII letters, digits and the underscore)
WordChars == UpperSet \cup LowerSet \cup DigitChars \cup { "_" }

\* \s, and the characters String.prototype.trim removes (ASCII part)
WhiteSpace == { " ", "\t", "\n", "\r", "\f" }

LowerOfUpper == [ c \in UpperSet |-> LowerLetters[CHOOSE k \in 1..26 : UpperLetters[k] = c] ]

UpperOfLower == [ c \in LowerSet |-> UpperLetters[CHOOSE k \in 1..26 : LowerLetters[k] = c] ]

toLowerCaseChar(c) == IF c \in UpperSet THEN LowerOfUpper[c] ELSE c

\* String.prototype.toLowerCase
toLowerCase(s) == << >> \o [ k \in 1..Len(s) |-> toLowerCaseChar(s[k]) ]

\* String.prototype.includes
includes(s, sub) ==
  \E k \in 0..(Len(s) - Len(sub)) : \A j \in 1..Len(sub) : s[k + j] = sub[j]

\* String.prototype.trim
trim(s) ==
  LET keep == { k \in 1..Len(s) : s[k] \notin WhiteSpace }
  IN  IF keep = {} THEN << >>
      ELSE SubSeq(s, CHOOSE a \in keep : \A b \in keep : a <= b,
                     CHOOSE a \in keep : \A b \in keep : a >= b)

\* String.prototype.split with a one-character separator
RECURSIVE split(_, _)
split(s, sep) ==
  LET hits == { k \in 1..Len(s) : s[k] = sep }
  IN  IF hits = {} THEN << s >>
      ELSE LET k == CHOOSE a \in hits : \A b \in hits : a <= b
           IN  << SubSeq(s, 1, k - 1) >> \o split(SubSeq(s, k + 1, Len(s)), sep)

\* Array.prototype.join with a one-character separator
RECURSIVE join(_, _)
join(parts, sep) ==
  IF Len(parts) = 0 THEN << >>
  ELSE IF Len(parts) = 1 THEN parts[1]
  ELSE parts[1] \o << sep >> \o join(Tail(parts), sep)

(***************************************************************************)
(* A backtracking matcher for the regular expressions of the source.  A    *)
(* pattern is a sequence of items: a character class with a greedy         *)
(* repetition count, or the assertion \b.  max = -1 is "no upper limit".   *)
(***************************************************************************)
Cls(set, min, max) == [ kind |-> "class", set |-> set, min |-> min, max |-> max ]

One(set) == Cls(set, 1, 1)

Opt(set) == Cls(set, 0, 1)

WordBoundary == [ kind |-> "wordb", set |-> {}, min |-> 0, max |-> 0 ]

\* \b at the gap before position pos (1-based) of s
isWordBoundary(s, pos) ==
  LET before == (pos > 1) /\ (s[pos - 1] \in WordChars)
      after  == (pos <= Len(s)) /\ (s[pos] \in WordChars)
  IN  before # after

\* length of the longest run of characters of set starting at pos
RECURSIVE runLength(_, _, _)
runLength(s, pos, set) ==
  IF pos <= Len(s) /\ s[pos] \in set THEN 1 + runLength(s, pos + 1, set) ELSE 0

\* The position after the match of items k.. of pat starting at pos, or 0
\* when there is none.  A greedy item first takes the longest repetition
\* (n characters) and gives characters back, down to min, until the rest of
\* the pattern matches.
RECURSIVE matchFrom(_, _, _, _), matchRepeated(_, _, _, _, _)
matchFrom(pat, k, s, pos) ==
  IF k > Len(pat) THEN pos
  ELSE IF pat[k].kind = "wordb"
       THEN IF isWordBoundary(s, pos) THEN matchFrom(pat, k + 1, s, pos) ELSE 0
  ELSE LET run == runLength(s, pos, pat[k].set)
       IN  matchRepeated(pat, k, s, pos,
                         IF pat[k].max = -1 \/ run < pat[k].max THEN run ELSE pat[k].max)

matchRepeated(pat, k, s, pos, n) ==
  IF n < pat[k].min THEN 0
  ELSE LET e == matchFrom(pat, k + 1, s, pos + n)
       IN  IF e # 0 THEN e ELSE matchRepeated(pat, k, s, pos, n - 1)

\* The alternatives of a regular expression are tried in order at a position.
RECURSIVE matchAlternatives(_, _, _, _)
matchAlternatives(alts, a, s, pos) ==
  IF a > Len(alts) THEN 0
  ELSE LET e == matchFrom(alts[a], 1, s, pos)
       IN  IF e # 0 THEN e ELSE matchAlternatives(alts, a + 1, s, pos)

\* The first match at or after position from: <<start, end + 1>>, or <<0, 0>>.
search(alts, s, from) ==
  LET starts == { p \in from..(Len(s) + 1) : matchAlternatives(alts, 1, s, p) # 0 }
  IN  IF starts = {} THEN << 0, 0 >>
      ELSE LET p == CHOOSE a \in starts : \A b \in starts : a <= b
           IN  << p, matchAlternatives(alts, 1, s, p) >>

\* s.match(re)?.[0] || ''   for a regular expression without the g flag
matchFirst(alts, s) ==
  LET m == search(alts, s, 1)
  IN  IF m[1] = 0 THEN << >> ELSE SubSeq(s, m[1], m[2] - 1)

\* s.match(re) for a regular expression with the g flag, none of whose
\* matches is empty: every match, left to right (<< >> stands for null).
RECURSIVE matchAll(_, _, _)
matchAll(alts, s, from) ==
  LET m == search(alts, s, from)
  IN  IF m[1] = 0 THEN << >>
      ELSE << SubSeq(s, m[1], m[2] - 1) >> \o matchAll(alts, s, m[2])

\* a literal of a pattern, and a literal under the i flag
Lit(str) == [ k \in 1..Len(str) |-> One({ str[k] }) ]

LitI(str) ==
  [ k \in 1..Len(str) |->
      One({ str[k] } \cup (IF str[k] \in LowerSet THEN { UpperOfLower[str[k]] } ELSE {})
                     \cup (IF str[k] \in UpperSet THEN { LowerOfUpper[str[k]] } ELSE {})) ]


(***************************************************************************)
(* JavaScript values that are not strings.  A string of the program is a   *)
(* sequence of one-character strings, so none of these equals a string.    *)
(***************************************************************************)
null == << "null" >>

undefined == << "undefined" >>

\* the outcome of reading a property of null or undefined
TypeError == << "TypeError" >>

\* a || b  on strings: '', null and undefined are falsy
orElse(a, b) ==
  IF a = TypeError THEN TypeError
  ELSE IF a = << >> \/ a = null \/ a = undefined THEN b ELSE a

\* arr[k] (k from 0) of an array or of null (written << >>: no array of the
\* model is empty where null is possible)
at(arr, k) ==
  IF arr = << >> THEN TypeError
  ELSE IF k + 1 <= Len(arr) THEN arr[k + 1] ELSE undefined

\* arr[k] where the code has arr?.[k]
optAtUnguarded(arr, k) ==
  IF arr = << >> THEN TypeError
  ELSE IF k + 1 <= Len(arr) THEN arr[k + 1] ELSE undefined

\* arr?.[k]
optAt(arr, k) ==
  IF arr = << >> THEN undefined
  ELSE IF k + 1 <= Len(arr) THEN arr[k + 1] ELSE undefined

\* lines[k] (k from 0) of an array that is never null
elementAt(arr, k) == IF k + 1 <= Len(arr) THEN arr[k + 1] ELSE undefined

\* s.replace(/[^...]/g, '') : every character outside keep is removed; a
\* method call on undefined or null raises TypeError
removeAllBut(s, keep) ==
  IF s \in { undefined, null, TypeError } THEN TypeError
  ELSE SelectSeq(s, LAMBDA c : c \in keep)

trimValue(s) == IF s \in { undefined, null, TypeError } THEN TypeError ELSE trim(s)

\* uuidv4(): a random identifier
Uuids == { "uuid-a", "uuid-b" }

NoUuid == "none"

(***************************************************************************)
(* The constants of fileProcessor.ts.                                      *)
(***************************************************************************)
experienceKeywords ==
  << << "e","x","p","e","r","i","e","n","c","e" >>,   \* 'experience'
     << "w","o","r","k"," ","h","i","s","t","o","r","y" >>,   \* 'work history'
     << "e","m","p","l","o","y","m","e","n","t" >>,   \* 'employment'
     << "p","r","o","f","e","s","s","i","o","n","a","l"," ","e","x","p","e","r","i","e","n","c","e" >> >>   \* 'professional experience'

education_kw == << "e","d","u","c","a","t","i","o","n" >>

skills_kw == << "s","k","i","l","l","s" >>

projects_kw == << "p","r","o","j","e","c","t","s" >>

experience_kw == << "e","x","p","e","r","i","e","n","c","e" >>

skillKeywords ==
  << << "s","k","i","l","l","s" >>,   \* 'skills'
     << "t","e","c","h","n","i","c","a","l"," ","s","k","i","l","l","s" >>,   \* 'technical skills'
     << "c","o","r","e"," ","c","o","m","p","e","t","e","n","c","i","e","s" >>,   \* 'core competencies'
     << "t","e","c","h","n","o","l","o","g","i","e","s" >> >>   \* 'technologies'

commonSkills ==
  << << "j","a","v","a","s","c","r","i","p","t" >>,   \* 'javascript'
     << "p","y","t","h","o","n" >>,   \* 'python'
     << "j","a","v","a" >>,   \* 'java'
     << "r","e","a","c","t" >>,   \* 'react'
     << "n","o","d","e",".","j","s" >>,   \* 'node.js'
     << "s","q","l" >>,   \* 'sql'
     << "h","t","m","l" >>,   \* 'html'
     << "c","s","s" >>,   \* 'css'
     << "p","r","o","j","e","c","t"," ","m","a","n","a","g","e","m","e","n","t" >>,   \* 'project management'
     << "l","e","a","d","e","r","s","h","i","p" >>,   \* 'leadership'
     << "c","o","m","m","u","n","i","c","a","t","i","o","n" >>,   \* 'communication'
     << "t","e","a","m","w","o","r","k" >>,   \* 'teamwork'
     << "p","r","o","b","l","e","m"," ","s","o","l","v","i","n","g" >> >>   \* 'problem solving'

javascript_kw == << "j","a","v","a","s","c","r","i","p","t" >>

python_kw == << "p","y","t","h","o","n" >>

educationKeywords ==
  << << "e","d","u","c","a","t","i","o","n" >>,   \* 'education'
     << "a","c","a","d","e","m","i","c"," ","b","a","c","k","g","r","o","u","n","d" >>,   \* 'academic background'
     << "q","u","a","l","i","f","i","c","a","t","i","o","n","s" >> >>   \* 'qualifications'

degreeKeywords ==
  << << "b","a","c","h","e","l","o","r" >>,   \* 'bachelor'
     << "m","a","s","t","e","r" >>,   \* 'master'
     << "p","h","d" >>,   \* 'phd'
     << "d","e","g","r","e","e" >>,   \* 'degree'
     << "d","i","p","l","o","m","a" >>,   \* 'diploma'
     << "c","e","r","t","i","f","i","c","a","t","e" >> >>   \* 'certificate'

Letters == UpperSet \cup LowerSet

\* /\b[A-Za-z0-9._%+-]+@[A-Za-z0-9.-]+\.[A-Z|a-z]{2,}\b/
emailRegex ==
  << << WordBoundary,
        Cls(Letters \cup DigitChars \cup { ".", "_", "%", "+", "-" }, 1, -1),
        One({ "@" }),
        Cls(Letters \cup DigitChars \cup { ".", "-" }, 1, -1),
        One({ "." }),
        Cls(Letters \cup { "|" }, 2, -1),
        WordBoundary >> >>

PhoneSeparator == { "-", "." } \cup WhiteSpace

\* \(?([0-9]{3})\)?[-.\s]?([0-9]{3})[-.\s]?([0-9]{4})
phoneNumberPart ==
  << Opt({ "(" }), Cls(DigitChars, 3, 3), Opt({ ")" }), Opt(PhoneSeparator),
     Cls(DigitChars, 3, 3), Opt(PhoneSeparator), Cls(DigitChars, 4, 4) >>

\* /(\+?1[-.\s]?)?\(?([0-9]{3})\)?[-.\s]?([0-9]{3})[-.\s]?([0-9]{4})/
\* the optional group is tried first at each position, then skipped
phoneRegex ==
  << << Opt({ "+" }), One({ "1" }), Opt(PhoneSeparator) >> \o phoneNumberPart,
     phoneNumberPart >>

\* /linkedin\.com\/in\/([a-zA-Z0-9-]+)/i
linkedinRegex ==
  << LitI(<< "l","i","n","k","e","d","i","n",".","c","o","m","/","i","n","/" >>)
     \o << Cls(Letters \cup DigitChars \cup { "-" }, 1, -1) >> >>

\* /\b(19|20)\d{2}\b/g
dateRegex ==
  << << WordBoundary >> \o Lit(<< "1", "9" >>) \o << Cls(DigitChars, 2, 2), WordBoundary >>,
     << WordBoundary >> \o Lit(<< "2", "0" >>) \o << Cls(DigitChars, 2, 2), WordBoundary >> >>

\* the characters /[^\w\s]/gi leaves in place
NameKept == WordChars \cup WhiteSpace

\* the characters /[^\d+()-.\s]/g leaves in place; )-. is the range ) * + , - .
PhoneKept == DigitChars \cup { "+", "(", ")", "*", ",", "-", "." } \cup WhiteSpace

(***************************************************************************)
(* Inputs.  A text is the raw lines of a document joined by line breaks;   *)
(* the raw lines are drawn from a vocabulary that holds a blank line, a    *)
(* contact line, the three section headers (one indented), data lines with *)
(* two, one and no year token, a line with vocabulary terms and a degree   *)
(* keyword, and a line naming two sections at once.                        *)
(***************************************************************************)
RawLines ==
  << << " " >>,   \* ' '
     << "-"," ","j","_","d","@","x",".","i","o"," ","5","5","5","-","1","2","3","-","4","5","6","7" >>,   \* '- j_d@x.io 555-123-4567'
     << " ","E","x","p","e","r","i","e","n","c","e" >>,   \* ' Experience'
     << "S","k","i","l","l","s" >>,   \* 'Skills'
     << "E","d","u","c","a","t","i","o","n" >>,   \* 'Education'
     << "M","a","s","t","e","r"," ","2","0","1","6","-","2","0","2","0" >>,   \* 'Master 2016-2020'
     << "J","a","v","a","S","c","r","i","p","t",","," ","S","Q","L"," ","d","e","g","r","e","e" >>,   \* 'JavaScript, SQL degree'
     << "E","d","u","c","a","t","i","o","n","/","E","x","p","e","r","i","e","n","c","e"," ","2","0","2","1" >>,   \* 'Education/Experience 2021'
     << "B","e","t","a"," ","x","2","0","1","9"," ","1","9","9","9" >> >>   \* 'Beta x2019 1999'

\* the raw lines of the repeated-call specification: a line that is a header
\* of the experience and of the education section, and a data line with a
\* degree keyword and a year token
RepeatLines ==
  { << "E","x","p","e","r","i","e","n","c","e","/","E","d","u","c","a","t","i","o","n" >>,   \* 'Experience/Education'
    << "P","h","D"," ","2","0","2","0" >> }   \* 'PhD 2020'

\* the raw lines of the section specification: a header of each section that
\* would count as data of its section (a year token, a vocabulary term, a
\* degree keyword), a data line of all three sections, and a line that is a
\* header of two sections
SectionRawLines ==
  { << "E","x","p","e","r","i","e","n","c","e"," ","2","0","1","9" >>,   \* 'Experience 2019'
    << "S","k","i","l","l","s"," ","S","Q","L" >>,   \* 'Skills SQL'
    << "E","d","u","c","a","t","i","o","n"," ","P","h","D" >>,   \* 'Education PhD'
    << "S","Q","L"," ","P","h","D"," ","2","0","2","1" >>,   \* 'SQL PhD 2021'
    << "E","d","u","c","a","t","i","o","n","/","E","x","p","e","r","i","e","n","c","e" >> }   \* 'Education/Experience'

\* the raw lines of the entry specification: a header of two sections,
\* and degree lines with no, one and two year tokens, two of them with
\* vocabulary terms, one of which is part of another
EntryRawLines ==
  { << "S","k","i","l","l","s","/","E","d","u","c","a","t","i","o","n" >>,   \* 'Skills/Education'
    << "J","a","v","a","S","c","r","i","p","t",","," ","S","Q","L"," ","d","e","g","r","e","e" >>,   \* 'JavaScript, SQL degree'
    << "S","Q","L"," ","P","h","D"," ","2","0","2","0" >>,   \* 'SQL PhD 2020'
    << "M","a","s","t","e","r"," ","2","0","1","6","-","2","0","2","0" >> }   \* 'Master 2016-2020'

RawLineSet == { RawLines[k] : k \in 1..Len(RawLines) }

SeqsUpTo(S, n) == UNION { [ 1..m -> S ] : m \in 0..n }

\* the documents of a specification, as sequences of raw lines
Documents(m) ==
  IF m = "single" THEN SeqsUpTo(RawLineSet, MaxLines)
  ELSE IF m = "sections" THEN SeqsUpTo(SectionRawLines, MaxLinesSections)
  ELSE IF m = "entries" THEN SeqsUpTo(EntryRawLines, MaxLinesEntries)
  ELSE SeqsUpTo(RepeatLines, MaxLinesRepeat)

VARIABLES
  mode,                 \* "single": one call; "repeat": call after call
  pc,                   \* control location inside extractDataFromText
  text,                 \* the argument of extractDataFromText
  lines,                \* const lines
  i,                    \* loop index of the extractor being run (from 1)
  personal_info,        \* result of extractPersonalInfo
  inExperienceSection,  \* locals of extractExperience
  currentExperience,    \* << >> for null, << entry >> for a pending entry
  experiences,
  inSkillsSection,      \* locals of extractSkills
  skills,
  inEducationSection,   \* locals of extractEducation
  education,
  extractedData,        \* the record extractDataFromText returned last
  earlier               \* history: one earlier call, its text and its result

extractVars ==
  << mode, pc, text, lines, i, personal_info, inExperienceSection,
     currentExperience, experiences, inSkillsSection, skills,
     inEducationSection, education, extractedData, earlier >>

VARIABLES
  parsePc,              \* control location inside parseResumeFile
  buffer,               \* the arguments of parseResumeFile
  mimetype,
  decoderCalls,         \* the decoder calls made by this call: decoder and argument
  decoderOutcome,       \* what the decoder called answered
  parsedText,           \* let text
  caught,               \* the error the catch clause received
  consoleErrors,        \* what console.error was given
  outcome               \* how the promise of parseResumeFile settled

parseVars ==
  << parsePc, buffer, mimetype, decoderCalls, decoderOutcome, parsedText, caught,
     consoleErrors, outcome >>

VARIABLES
  otpStorage,           \* const otpStorage: a Map, here a function on its keys
  now,                  \* Date.now()
  clockSteps,           \* how often the clock has advanced
  storedAt,             \* history: per email, the last call of storeOTP: when, and
                        \* with which code
  accepted,             \* history: per email, the codes verifyOTP accepted
                        \* since storeOTP was last called
  lastCall              \* history: the last call of storeOTP or verifyOTP

otpVars == << otpStorage, now, clockSteps, storedAt, accepted, lastCall >>

VARIABLES
  requests,             \* the requests the two auth handlers are working on:
                        \* per slot, the locals of the handler
  users,                \* the items of the users container
  lastResponse          \* history: the response sent last, with the locals of
                        \* the handler that sent it; turn changes with every
                        \* response

apiVars == << requests, users, lastResponse >>

VARIABLES
  login,                \* the state of the Login page: email, otp, step, loading,
                        \* error, success, and the route the browser is on
  pending,              \* the request of the page that is in flight
  loginHistory          \* history: the last event on the page, and whether
                        \* 'Back to email' was clicked with no submission of
                        \* the email form since

loginVars == << login, pending, loginHistory >>

VARIABLES
  resumeStore,          \* the blob containers, the Cosmos containers of resumes
                        \* and job analyses, and the temporary files on disk
  resumeCalls,          \* slot -> the locals of the resume handler running there
  resumeAnswer          \* history: the last response of a resume handler

resumeVars == << resumeStore, resumeCalls, resumeAnswer >>

VARIABLES
  scoring               \* one call of enhanceResumeWithAI and what is stored of it

scoreVars == << scoring >>

vars == << extractVars, parseVars, otpVars, apiVars, loginVars, resumeVars, scoreVars >>

\* what the actions of extractDataFromText leave alone
notExtract == << parseVars, otpVars, apiVars, loginVars, resumeVars, scoreVars >>

\* what the actions of parseResumeFile leave alone
notParse == << extractVars, otpVars, apiVars, loginVars, resumeVars, scoreVars >>

\* what the calls of storeOTP and verifyOTP leave alone
notOtp == << extractVars, parseVars, apiVars, loginVars, resumeVars, scoreVars >>

\* what the auth handlers leave alone, the OTP storage apart
notApi == << extractVars, parseVars, loginVars, resumeVars, scoreVars >>

\* what the Login page leaves alone
notLogin == << extractVars, parseVars, otpVars, apiVars, resumeVars, scoreVars >>

\* what the resume handlers leave alone
notResume == << extractVars, parseVars, otpVars, apiVars, loginVars, scoreVars >>

\* what enhanceResumeWithAI leaves alone
notScore == << extractVars, parseVars, otpVars, apiVars, loginVars, resumeVars >>

(***************************************************************************)
(* The pure parts of the extractors.                                       *)
(***************************************************************************)
\* text.split('\n').map(line => line.trim()).filter(line => line.length > 0)
splitLines(t) ==
  LET parts   == split(t, "\n")
      trimmed == [ k \in 1..Len(parts) |-> trim(parts[k]) ]
  IN  SelectSeq(trimmed, LAMBDA l : Len(l) > 0)

\* keywords.every(keyword => line.includes(keyword))
everyIncludes(keywords, line) ==
  \A k \in 1..Len(keywords) : includes(line, keywords[k])

\* keywords.some(keyword => line.includes(keyword))
someIncludes(keywords, line) ==
  \E k \in 1..Len(keywords) : includes(line, keywords[k])

\* const line = lines[i] without the lower-casing
lineAsWritten(ls, k) == ls[k]

\* const line = lines[i].toLowerCase()
lowerLine(ls, k) == toLowerCase(ls[k])

\* the first line without a default: lines[0]
firstLineNoDefault(ls) == elementAt(ls, 0)

\* const name = lines[0] || ''
firstLineOrEmpty(ls) == orElse(elementAt(ls, 0), << >>)

\* name.replace(/[^\w\s]/gi, '') without the trim that follows
cleanNameUntrimmed(name) == removeAllBut(name, NameKept)

\* name.replace(/[^\w\s]/gi, '').trim()
cleanName(name) == trimValue(removeAllBut(name, NameKept))

extractPersonalInfo(ls, fullText) ==
  LET email    == matchFirst(emailRegex, fullText)
      phone    == matchFirst(phoneRegex, fullText)
      linkedin == matchFirst(linkedinRegex, fullText)
      name     == firstLineOrEmpty(ls)
  IN  [ name     |-> cleanName(name),
        email    |-> email,
        phone    |-> removeAllBut(phone, PhoneKept),
        address  |-> << >>,
        linkedin |-> linkedin,
        website  |-> << >> ]

\* the stop check of extractExperience without 'education'
experienceStopsLessEducation(line) ==
  includes(line, skills_kw) \/ includes(line, projects_kw)

\* line.includes('education') || line.includes('skills') || line.includes('projects')
experienceStops(line) ==
  includes(line, education_kw) \/ includes(line, skills_kw) \/ includes(line, projects_kw)

\* line.includes('experience') || line.includes('education') || line.includes('projects')
skillsStops(line) ==
  includes(line, experience_kw) \/ includes(line, education_kw) \/ includes(line, projects_kw)

\* the stop check of extractEducation without 'skills'
educationStopsLessSkills(line) ==
  includes(line, experience_kw) \/ includes(line, projects_kw)

\* line.includes('experience') || line.includes('skills') || line.includes('projects')
educationStops(line) ==
  includes(line, experience_kw) \/ includes(line, skills_kw) \/ includes(line, projects_kw)

\* lines[i].split(/\d/)[0]
beforeFirstDigit(s) ==
  LET hits == { k \in 1..Len(s) : s[k] \in DigitChars }
  IN  IF hits = {} THEN s
      ELSE SubSeq(s, 1, (CHOOSE a \in hits : \A b \in hits : a <= b) - 1)

\* a pending experience whose endDate falls back to the first year token
newExperienceEndingAtStart(rawLine, dates) ==
  [ company      |-> trim(beforeFirstDigit(rawLine)),
    position     |-> << >>,
    startDate    |-> at(dates, 0),
    endDate      |-> orElse(at(dates, 1), at(dates, 0)),
    description  |-> << >>,
    achievements |-> << >> ]

\* currentExperience = { company: ..., startDate: dates[0], endDate: dates[1] || null, ... }
newExperience(rawLine, dates) ==
  [ company      |-> trim(beforeFirstDigit(rawLine)),
    position     |-> << >>,
    startDate    |-> at(dates, 0),
    endDate      |-> orElse(at(dates, 1), null),
    description  |-> << >>,
    achievements |-> << >> ]

\* experiences.push({ id: uuidv4(), company: currentExperience.company || '', ... })
\* (achievements is an array, which is truthy even when empty)
pushedExperience(cur, id) ==
  [ id           |-> id,
    company      |-> orElse(cur.company, << >>),
    position     |-> orElse(cur.position, << >>),
    startDate    |-> orElse(cur.startDate, << >>),
    endDate      |-> orElse(cur.endDate, null),
    description  |-> orElse(cur.description, << >>),
    achievements |-> cur.achievements ]

\* the pending experience is dropped instead of pushed
withPendingDropped(list, cur, id) == list

\* if (currentExperience) { experiences.push({...}) }
withPending(list, cur, id) ==
  IF cur # << >> THEN Append(list, pushedExperience(cur[1], id)) ELSE list

\* skill.includes('javascript') || skill.includes('python') ? 'Programming' : 'General'
skillCategory(skill) ==
  IF includes(skill, javascript_kw) \/ includes(skill, python_kw)
  THEN "Programming" ELSE "General"

\* the first term of the vocabulary that the line holds, and no other
skillsOfLineFirstTerm(line) ==
  LET found == SelectSeq(commonSkills, LAMBDA skill : includes(line, skill))
  IN  [ k \in 1..(IF found = << >> THEN 0 ELSE 1) |->
          [ name |-> found[k], level |-> "intermediate", category |-> skillCategory(found[k]) ] ]

\* commonSkills.forEach(skill => { if (line.includes(skill)) skills.push({...}) })
skillsOfLine(line) ==
  LET found == SelectSeq(commonSkills, LAMBDA skill : includes(line, skill))
  IN  [ k \in 1..Len(found) |->
          [ name |-> found[k], level |-> "intermediate", category |-> skillCategory(found[k]) ] ]

\* an education entry whose endDate does not fall back to the first year token
educationEntryNoFallback(line, rawLine, id) ==
  LET dates == matchAll(dateRegex, rawLine, 1)
  IN  [ id          |-> id,
        institution |-> << >>,
        degree      |-> line,
        field       |-> << >>,
        startDate   |-> orElse(optAt(dates, 0), << >>),
        endDate     |-> orElse(optAt(dates, 1), << >>),
        gpa         |-> undefined ]

\* education.push({ id: uuidv4(), institution: '', degree: line, ... })
\* line is the lower-cased line, dates the year tokens of the raw line
educationEntry(line, rawLine, id) ==
  LET dates == matchAll(dateRegex, rawLine, 1)
  IN  [ id          |-> id,
        institution |-> << >>,
        degree      |-> line,
        field       |-> << >>,
        startDate   |-> orElse(optAt(dates, 0), << >>),
        endDate     |-> orElse(optAt(dates, 1), orElse(optAt(dates, 0), << >>)),
        gpa         |-> undefined ]

(***************************************************************************)
(* extractDataFromText as a state machine: a call, the four extractors in  *)
(* the order of the object literal, one action per loop iteration.         *)
(***************************************************************************)
noPersonalInfo ==
  [ name |-> << >>, email |-> << >>, phone |-> << >>, address |-> << >>,
    linkedin |-> << >>, website |-> << >> ]

noData ==
  [ personal_info |-> noPersonalInfo, experience |-> << >>, skills |-> << >>,
    education |-> << >> ]

noEarlierCall == [ set |-> FALSE, text |-> << >>, data |-> noData, between |-> FALSE ]

InitLocals ==
  /\ pc = "idle"
  /\ text = << >>
  /\ lines = << >>
  /\ i = 1
  /\ personal_info = noPersonalInfo
  /\ inExperienceSection = FALSE
  /\ currentExperience = << >>
  /\ experiences = << >>
  /\ inSkillsSection = FALSE
  /\ skills = << >>
  /\ inEducationSection = FALSE
  /\ education = << >>
  /\ extractedData = noData
  /\ earlier = noEarlierCall

noOutcome == [ kind |-> "pending", value |-> "" ]

noError == "none"

InitParseLocals ==
  /\ parsePc = "idle"
  /\ buffer = "buffer-1"
  /\ mimetype = ""
  /\ decoderCalls = << >>
  /\ decoderOutcome = noOutcome
  /\ parsedText = ""
  /\ caught = noError
  /\ consoleErrors = << >>
  /\ outcome = noOutcome

\* a Map with no entry
emptyMap == [ k \in {} |-> k ]

noCall ==
  [ fn |-> "none", email |-> << >>, otp |-> << >>, found |-> FALSE, result |-> FALSE,
    at |-> 0 ]

InitOtpLocals ==
  /\ otpStorage = emptyMap
  /\ now = 0
  /\ clockSteps = 0
  /\ storedAt = emptyMap
  /\ accepted = emptyMap
  /\ lastCall = noCall

Slots == { 1, 2 }

\* a slot no handler is working in
noRequest ==
  [ pc |-> "idle", handler |-> "", method |-> "", email |-> undefined, otp |-> undefined,
    generated |-> undefined, emailSent |-> FALSE, isValidOTP |-> FALSE, user |-> << >>,
    calls |-> << >>, storeArgs |-> << >>, sendArgs |-> << >>, verifyArgs |-> << >>,
    findArgs |-> << >> ]

noResponse ==
  [ slot |-> 0, turn |-> FALSE, status |-> 0, success |-> FALSE, message |-> "",
    error |-> "", token |-> << >>, user |-> << >>, request |-> noRequest ]

InitApiLocals ==
  /\ requests = [ r \in Slots |-> noRequest ]
  /\ users = << >>
  /\ lastResponse = noResponse

\* useState(''), useState(''), useState('email'), useState(false), ...
InitLoginLocals ==
  /\ login = [ email |-> << >>, otp |-> << >>, step |-> "email", loading |-> FALSE,
               error |-> "", success |-> "", route |-> "/login" ]
  /\ pending = "none"
  /\ loginHistory = [ lastEvent |-> "none", sinceBack |-> FALSE ]

\* the resume handlers take one request at a time
ResumeSlots == { 1 }

\* the locals of a resume handler with no request
noResumeCall ==
  [ pc |-> "idle", handler |-> "", token |-> "", user |-> << >>, resumeId |-> << >>,
    file |-> << >>, fileName |-> << >>, resume |-> << >>, analysisId |-> << >>,
    html |-> << >>, done |-> << >> ]

\* the data of a response that has none
noResumeData == [ resumeId |-> << >>, enhancedResumeUrl |-> << >>, htmlContent |-> << >> ]

noResumeAnswer ==
  [ slot |-> 0, handler |-> "", status |-> 0, error |-> "", data |-> noResumeData,
    user |-> << >>, resumeId |-> << >>, file |-> << >> ]

\* empty containers and no temporary file
InitResumeLocals ==
  /\ resumeStore = [ blobs |-> {}, enhanced |-> {}, resumes |-> {}, analyses |-> {},
                     temp |-> {} ]
  /\ resumeCalls = [ r \in ResumeSlots |-> noResumeCall ]
  /\ resumeAnswer = noResumeAnswer

noScoring ==
  [ pc |-> "idle", resumeSkills |-> << >>, requiredSkills |-> << >>, path |-> "",
    ats_score |-> undefined, match_score |-> undefined ]

InitScoreLocals == scoring = noScoring

InitOther ==
  /\ InitParseLocals /\ InitOtpLocals /\ InitApiLocals /\ InitLoginLocals
  /\ InitResumeLocals /\ InitScoreLocals

InitExtract == mode = "single" /\ InitLocals /\ InitOther

InitRepeat == mode = "repeat" /\ InitLocals /\ InitOther

InitSections == mode = "sections" /\ InitLocals /\ InitOther

InitEntries == mode = "entries" /\ InitLocals /\ InitOther

\* A caller calls extractDataFromText(text); the lines are computed.
ExtractDataFromText ==
  /\ pc = "idle" \/ (mode = "repeat" /\ pc = "returned")
  /\ \E doc \in Documents(mode) :
       /\ text' = join(doc, "\n")
       /\ lines' = splitLines(text')
       /\ earlier' = IF earlier.set /\ text' # earlier.text
                     THEN [ earlier EXCEPT !.between = TRUE ] ELSE earlier
  /\ pc' = "personal_info"
  /\ extractedData' = noData      \* const extractedData is not built yet
  /\ UNCHANGED << mode, i, personal_info, inExperienceSection, currentExperience,
                  experiences, inSkillsSection, skills, inEducationSection,
                  education >>
  /\ UNCHANGED notExtract

\* personal_info: extractPersonalInfo(lines, text)
CallExtractPersonalInfo ==
  /\ pc = "personal_info"
  /\ LET info == extractPersonalInfo(lines, text)
     IN  IF info.name = TypeError \/ info.phone = TypeError
         THEN pc' = "threw" /\ UNCHANGED personal_info
         ELSE pc' = "experience_entry" /\ personal_info' = info
  /\ UNCHANGED << mode, text, lines, i, inExperienceSection, currentExperience,
                  experiences, inSkillsSection, skills, inEducationSection,
                  education, extractedData, earlier >>
  /\ UNCHANGED notExtract

\* extractExperience is entered with a result list that outlives the call:
\* the list is not emptied.
EnterExtractExperienceSharedList ==
  /\ pc = "experience_entry"
  /\ inExperienceSection' = FALSE
  /\ currentExperience' = << >>
  /\ i' = 1
  /\ pc' = "experience_loop"
  /\ UNCHANGED << mode, text, lines, personal_info, experiences, inSkillsSection, skills,
                  inEducationSection, education, extractedData, earlier >>
  /\ UNCHANGED notExtract

\* extractExperience is entered: its locals are initialised.
EnterExtractExperience ==
  /\ pc = "experience_entry"
  /\ experiences' = << >>
  /\ inExperienceSection' = FALSE
  /\ currentExperience' = << >>
  /\ i' = 1
  /\ pc' = "experience_loop"
  /\ UNCHANGED << mode, text, lines, personal_info, inSkillsSection, skills,
                  inEducationSection, education, extractedData, earlier >>
  /\ UNCHANGED notExtract

\* One iteration of the loop of extractExperience.
ExperienceIteration ==
  /\ pc = "experience_loop"
  /\ i <= Len(lines)
  /\ LET line == lowerLine(lines, i)
     IN  IF someIncludes(experienceKeywords, line)
         THEN /\ inExperienceSection' = TRUE
              /\ i' = i + 1
              /\ UNCHANGED << pc, currentExperience, experiences >>
         ELSE IF inExperienceSection /\ experienceStops(line)
         THEN /\ pc' = "experience_end"
              /\ UNCHANGED << i, inExperienceSection, currentExperience, experiences >>
         ELSE IF inExperienceSection
         THEN LET dates == matchAll(dateRegex, lines[i], 1)
              IN  IF dates # << >> /\ Len(dates) >= 1
                  THEN /\ \E id \in (IF currentExperience # << >> THEN Uuids ELSE { NoUuid }) :
                            experiences' = withPending(experiences, currentExperience, id)
                       /\ currentExperience' = << newExperience(lines[i], dates) >>
                       /\ i' = i + 1
                       /\ UNCHANGED << pc, inExperienceSection >>
                  ELSE /\ i' = i + 1
                       /\ UNCHANGED << pc, inExperienceSection, currentExperience, experiences >>
         ELSE /\ i' = i + 1
              /\ UNCHANGED << pc, inExperienceSection, currentExperience, experiences >>
  /\ UNCHANGED << mode, text, lines, personal_info, inSkillsSection, skills,
                  inEducationSection, education, extractedData, earlier >>
  /\ UNCHANGED notExtract

\* The loop condition i < lines.length fails.
ExperienceLoopEnd ==
  /\ pc = "experience_loop"
  /\ i > Len(lines)
  /\ pc' = "experience_end"
  /\ UNCHANGED << mode, text, lines, i, personal_info, inExperienceSection,
                  currentExperience, experiences, inSkillsSection, skills,
                  inEducationSection, education, extractedData, earlier >>
  /\ UNCHANGED notExtract

\* After the loop: the last experience is added if it exists, and returned.
FinishExtractExperience ==
  /\ pc = "experience_end"
  /\ \E id \in (IF currentExperience # << >> THEN Uuids ELSE { NoUuid }) :
       experiences' = withPending(experiences, currentExperience, id)
  /\ pc' = "skills_entry"
  /\ UNCHANGED << mode, text, lines, i, personal_info, inExperienceSection,
                  currentExperience, inSkillsSection, skills, inEducationSection,
                  education, extractedData, earlier >>
  /\ UNCHANGED notExtract

\* extractSkills is entered.
EnterExtractSkills ==
  /\ pc = "skills_entry"
  /\ skills' = << >>
  /\ inSkillsSection' = FALSE
  /\ i' = 1
  /\ pc' = "skills_loop"
  /\ UNCHANGED << mode, text, lines, personal_info, inExperienceSection,
                  currentExperience, experiences, inEducationSection, education,
                  extractedData, earlier >>
  /\ UNCHANGED notExtract

\* One iteration of the loop of extractSkills.
SkillsIteration ==
  /\ pc = "skills_loop"
  /\ i <= Len(lines)
  /\ LET line == lowerLine(lines, i)
     IN  IF someIncludes(skillKeywords, line)
         THEN /\ inSkillsSection' = TRUE
              /\ i' = i + 1
              /\ UNCHANGED << pc, skills >>
         ELSE IF inSkillsSection /\ skillsStops(line)
         THEN /\ pc' = "skills_end"
              /\ UNCHANGED << i, inSkillsSection, skills >>
         ELSE IF inSkillsSection
         THEN /\ skills' = skills \o skillsOfLine(line)
              /\ i' = i + 1
              /\ UNCHANGED << pc, inSkillsSection >>
         ELSE /\ i' = i + 1
              /\ UNCHANGED << pc, inSkillsSection, skills >>
  /\ UNCHANGED << mode, text, lines, personal_info, inExperienceSection,
                  currentExperience, experiences, inEducationSection, education,
                  extractedData, earlier >>
  /\ UNCHANGED notExtract

SkillsLoopEnd ==
  /\ pc = "skills_loop"
  /\ i > Len(lines)
  /\ pc' = "skills_end"
  /\ UNCHANGED << mode, text, lines, i, personal_info, inExperienceSection,
                  currentExperience, experiences, inSkillsSection, skills,
                  inEducationSection, education, extractedData, earlier >>
  /\ UNCHANGED notExtract

\* return skills
FinishExtractSkills ==
  /\ pc = "skills_end"
  /\ pc' = "education_entry"
  /\ UNCHANGED << mode, text, lines, i, personal_info, inExperienceSection,
                  currentExperience, experiences, inSkillsSection, skills,
                  inEducationSection, education, extractedData, earlier >>
  /\ UNCHANGED notExtract

\* extractEducation is entered.
EnterExtractEducation ==
  /\ pc = "education_entry"
  /\ education' = << >>
  /\ inEducationSection' = FALSE
  /\ i' = 1
  /\ pc' = "education_loop"
  /\ UNCHANGED << mode, text, lines, personal_info, inExperienceSection,
                  currentExperience, experiences, inSkillsSection, skills,
                  extractedData, earlier >>
  /\ UNCHANGED notExtract

\* One iteration of the loop of extractEducation.
EducationIteration ==
  /\ pc = "education_loop"
  /\ i <= Len(lines)
  /\ LET line == lowerLine(lines, i)
     IN  IF someIncludes(educationKeywords, line)
         THEN /\ inEducationSection' = TRUE
              /\ i' = i + 1
              /\ UNCHANGED << pc, education >>
         ELSE IF inEducationSection /\ educationStops(line)
         THEN /\ pc' = "education_end"
              /\ UNCHANGED << i, inEducationSection, education >>
         ELSE IF inEducationSection /\ someIncludes(degreeKeywords, line)
         THEN \E id \in Uuids :
                LET entry == educationEntry(line, lines[i], id)
                IN  IF entry.startDate = TypeError \/ entry.endDate = TypeError
                    THEN /\ pc' = "threw"
                         /\ UNCHANGED << i, inEducationSection, education >>
                    ELSE /\ education' = Append(education, entry)
                         /\ i' = i + 1
                         /\ UNCHANGED << pc, inEducationSection >>
         ELSE /\ i' = i + 1
              /\ UNCHANGED << pc, inEducationSection, education >>
  /\ UNCHANGED << mode, text, lines, personal_info, inExperienceSection,
                  currentExperience, experiences, inSkillsSection, skills,
                  extractedData, earlier >>
  /\ UNCHANGED notExtract

EducationLoopEnd ==
  /\ pc = "education_loop"
  /\ i > Len(lines)
  /\ pc' = "education_end"
  /\ UNCHANGED << mode, text, lines, i, personal_info, inExperienceSection,
                  currentExperience, experiences, inSkillsSection, skills,
                  inEducationSection, education, extractedData, earlier >>
  /\ UNCHANGED notExtract

\* return education; then extractDataFromText returns extractedData.  In the
\* repeated-call specification one call may be remembered for comparison.
ReturnExtractedData ==
  /\ pc = "education_end"
  /\ extractedData' =
       [ personal_info |-> personal_info, experience |-> experiences,
         skills |-> skills, education |-> education ]
  /\ \E remember \in BOOLEAN :
       earlier' = IF mode = "repeat" /\ remember /\ ~earlier.set
                  THEN [ set |-> TRUE, text |-> text, data |-> extractedData',
                         between |-> FALSE ]
                  ELSE earlier
  /\ pc' = "returned"
  /\ UNCHANGED << mode, text, lines, i, personal_info, inExperienceSection,
                  currentExperience, experiences, inSkillsSection, skills,
                  inEducationSection, education >>
  /\ UNCHANGED notExtract

NextExtract ==
  \/ ExtractDataFromText
  \/ CallExtractPersonalInfo
  \/ EnterExtractExperience
  \/ ExperienceIteration
  \/ ExperienceLoopEnd
  \/ FinishExtractExperience
  \/ EnterExtractSkills
  \/ SkillsIteration
  \/ SkillsLoopEnd
  \/ FinishExtractSkills
  \/ EnterExtractEducation
  \/ EducationIteration
  \/ EducationLoopEnd
  \/ ReturnExtractedData

\* one call of extractDataFromText on any document of up to MaxLines lines
SpecExtract == InitExtract /\ [][NextExtract]_vars

\* call after call on documents of up to MaxLinesRepeat lines
SpecRepeat == InitRepeat /\ [][NextExtract]_vars

\* one call of extractDataFromText on any document of up to MaxLinesSections
\* lines that are headers and data of the three sections
SpecSections == InitSections /\ [][NextExtract]_vars

\* one call of extractDataFromText on any document of up to MaxLinesEntries
\* lines that are a header of the skills and education sections or data lines
SpecEntries == InitEntries /\ [][NextExtract]_vars

(***************************************************************************)
(* parseResumeFile as a state machine.  The decoders (pdf-parse, mammoth)  *)
(* are external: a call of one resolves with some text or rejects with     *)
(* some error.                                                             *)
(***************************************************************************)
PdfType == "application/pdf"

DocxType == "application/vnd.openxmlformats-officedocument.wordprocessingml.document"

DocType == "application/msword"

MimeTypes == { PdfType, DocxType, DocType, "text/plain", "" }

Buffers == { "buffer-1", "buffer-2", "buffer-3" }

DecodedTexts == { "", "Extracted PDF text", "Extracted DOCX text" }

DecoderErrors == { "PDF parsing failed", "Could not find file in options" }

\* A caller calls parseResumeFile(buffer, mimetype): let text = ''
ParseResumeFile ==
  /\ parsePc \in { "idle", "settled" }
  /\ \E b \in Buffers, m \in MimeTypes : buffer' = b /\ mimetype' = m
  /\ parsedText' = ""
  /\ decoderCalls' = << >>
  /\ decoderOutcome' = noOutcome
  /\ caught' = noError
  /\ consoleErrors' = << >>
  /\ outcome' = noOutcome
  /\ parsePc' = "try"
  /\ UNCHANGED notParse

\* an if-chain that sends every recognised media type to the PDF decoder
selectedDecoderAlwaysPdf(m) ==
  IF m \in { PdfType, DocxType, DocType } THEN "pdf" ELSE ""

\* the decoder the if-chain selects for a media type, "" when it selects none
selectedDecoder(m) ==
  IF m = PdfType THEN "pdf"
  ELSE IF m = DocxType THEN "mammoth.extractRawText"
  ELSE IF m = DocType THEN "mammoth.extractRawText"
  ELSE ""

\* The if-chain: a decoder is called and awaited, or Error('Unsupported file
\* type') is thrown inside the try block.
Dispatch ==
  /\ parsePc = "try"
  /\ IF selectedDecoder(mimetype) # ""
     THEN /\ decoderCalls' = Append(decoderCalls,
                 [ decoder |-> selectedDecoder(mimetype), buffer |-> buffer ])
          /\ parsePc' = "await"
          /\ UNCHANGED caught
     ELSE /\ caught' = "Unsupported file type"
          /\ parsePc' = "catch"
          /\ UNCHANGED decoderCalls
  /\ UNCHANGED << buffer, mimetype, decoderOutcome, parsedText, consoleErrors, outcome >>
  /\ UNCHANGED notParse

\* The awaited decoder resolves: text = data.text / text = result.value
DecoderResolves ==
  /\ parsePc = "await"
  /\ \E t \in DecodedTexts :
       /\ decoderOutcome' = [ kind |-> "resolved", value |-> t ]
       /\ parsedText' = t
  /\ parsePc' = "return"
  /\ UNCHANGED << buffer, mimetype, decoderCalls, caught, consoleErrors, outcome >>
  /\ UNCHANGED notParse

\* The awaited decoder rejects: control passes to the catch clause.
DecoderRejects ==
  /\ parsePc = "await"
  /\ \E e \in DecoderErrors :
       /\ decoderOutcome' = [ kind |-> "rejected", value |-> e ]
       /\ caught' = e
  /\ parsePc' = "catch"
  /\ UNCHANGED << buffer, mimetype, decoderCalls, parsedText, consoleErrors, outcome >>
  /\ UNCHANGED notParse

\* return text
ReturnText ==
  /\ parsePc = "return"
  /\ outcome' = [ kind |-> "resolved", value |-> parsedText ]
  /\ parsePc' = "settled"
  /\ UNCHANGED << buffer, mimetype, decoderCalls, decoderOutcome, parsedText, caught,
                  consoleErrors >>
  /\ UNCHANGED notParse

\* a catch clause that throws the error it caught again
thrownByCatchAgain(error) == error

\* the error the catch clause throws, given the error it caught
thrownByCatch(error) == "Failed to parse resume file"

\* catch (error) { console.error(...); throw new Error('Failed to parse resume file') }
CatchError ==
  /\ parsePc = "catch"
  /\ consoleErrors' = Append(consoleErrors, caught)
  /\ outcome' = [ kind |-> "rejected", value |-> thrownByCatch(caught) ]
  /\ parsePc' = "settled"
  /\ UNCHANGED << buffer, mimetype, decoderCalls, decoderOutcome, parsedText, caught >>
  /\ UNCHANGED notParse

NextParse ==
  \/ ParseResumeFile
  \/ Dispatch
  \/ DecoderResolves
  \/ DecoderRejects
  \/ ReturnText
  \/ CatchError

InitParse == mode = "single" /\ InitLocals /\ InitOther

\* calls of parseResumeFile, one after the other
SpecParse == InitParse /\ [][NextParse]_vars

(***************************************************************************)
(* Properties of parseResumeFile.                                          *)
(***************************************************************************)
settledCall == parsePc = "settled"

unsupportedCall == selectedDecoder(mimetype) = ""

\* C1: a call of parseResumeFile with a media type that is none of the three
\* recognised ones is rejected with the error 'Unsupported file type', which
\* is not the error 'Failed to parse resume file', and calls no decoder.
C1_UnsupportedTypeIsReported ==
  (settledCall /\ unsupportedCall) =>
     /\ outcome = [ kind |-> "rejected", value |-> "Unsupported file type" ]
     /\ outcome.value # "Failed to parse resume file"
     /\ decoderCalls = << >>

\* C2: when the decoder called for a recognised media type raises an error,
\* whichever error it is, parseResumeFile is rejected with the error
\* 'Failed to parse resume file' and not with the error of the decoder.
C2_DecoderErrorIsReplaced ==
  (settledCall /\ decoderOutcome.kind = "rejected") =>
     /\ outcome = [ kind |-> "rejected", value |-> "Failed to parse resume file" ]
     /\ outcome.value # decoderOutcome.value

C2_DecoderErrorSeen ==
  /\ settledCall
  /\ decoderOutcome.kind = "rejected"
  /\ decoderOutcome.value \in DecoderErrors
  /\ Len(decoderCalls) = 1
  /\ outcome.kind = "rejected"

Contains(rawLine, word) == includes(toLowerCase(rawLine), word)

ContainsSome(rawLine, words) == \E k \in 1..Len(words) : Contains(rawLine, words[k])

\* some line of the sequence contains one of the header keywords
HasHeader(ls, headers) == \E n \in 1..Len(ls) : ContainsSome(ls[n], headers)

\* line n comes after a header line
AfterHeader(ls, headers, n) == \E j \in 1..(n - 1) : ContainsSome(ls[j], headers)

\* line n ends the section: it comes after a header line, is not a header
\* line itself, and contains one of the stop words
EndsSection(ls, headers, stops, n) ==
  /\ AfterHeader(ls, headers, n)
  /\ ~ContainsSome(ls[n], headers)
  /\ ContainsSome(ls[n], stops)

\* the lines inside the section: after a header line, not header lines
\* themselves, and neither ending the section nor after a line that does
SectionLines(ls, headers, stops) ==
  { n \in 1..Len(ls) :
      /\ AfterHeader(ls, headers, n)
      /\ ~ContainsSome(ls[n], headers)
      /\ \A m \in 1..n : ~EndsSection(ls, headers, stops, m) }

ExperienceStopWords == << education_kw, skills_kw, projects_kw >>

SkillsStopWords == << experience_kw, education_kw, projects_kw >>

EducationStopWords == << experience_kw, skills_kw, projects_kw >>

ExperienceLines == SectionLines(lines, experienceKeywords, ExperienceStopWords)

SkillsLines == SectionLines(lines, skillKeywords, SkillsStopWords)

EducationLines == SectionLines(lines, educationKeywords, EducationStopWords)

\* the n-th smallest element of a finite set of numbers
RECURSIVE NthOf(_, _)
NthOf(S, n) ==
  LET least == CHOOSE x \in S : \A y \in S : x <= y
  IN  IF n = 1 THEN least ELSE NthOf(S \ { least }, n - 1)

returned == pc = "returned"

SectionNames == { "personal_info", "experience", "skills", "education" }

\* C3: whatever the text, extractDataFromText never raises an error on its way
\* to its return; the record returned has the fields personal_info,
\* experience, skills and education; and the list of a section none of whose
\* header keywords occurs in any line is the empty sequence.
C3_ExtractionCompletes ==
  /\ pc # "threw"
  /\ returned =>
       /\ DOMAIN extractedData = SectionNames
       /\ ~HasHeader(lines, experienceKeywords) => extractedData.experience = << >>
       /\ ~HasHeader(lines, skillKeywords) => extractedData.skills = << >>
       /\ ~HasHeader(lines, educationKeywords) => extractedData.education = << >>

C3_NoSectionReturned ==
  /\ returned
  /\ Len(lines) >= 2
  /\ \E n \in 1..Len(lines) : Len(matchAll(dateRegex, lines[n], 1)) >= 1
  /\ ~HasHeader(lines, experienceKeywords)
  /\ ~HasHeader(lines, skillKeywords)
  /\ ~HasHeader(lines, educationKeywords)
  /\ extractedData.experience = << >>

\* C4: extractDataFromText('') raises no error and returns a record whose
\* personal_info fields name, email, phone, address, linkedin and website
\* are all '' and whose experience, skills and education are all empty.
C4_EmptyText ==
  (text = << >>) =>
     /\ pc # "threw"
     /\ returned =>
          /\ DOMAIN extractedData.personal_info =
               { "name", "email", "phone", "address", "linkedin", "website" }
          /\ \A f \in DOMAIN extractedData.personal_info :
               extractedData.personal_info[f] = << >>
          /\ extractedData.experience = << >>
          /\ extractedData.skills = << >>
          /\ extractedData.education = << >>

C4_EmptyTextReturned == returned /\ text = << >> /\ lines = << >>

\* position p of the line starts a year token: 19 or 20 and two more digits,
\* with no word character directly before or after
YearTokenAt(s, p) ==
  /\ p + 3 <= Len(s)
  /\ (s[p] = "1" /\ s[p + 1] = "9") \/ (s[p] = "2" /\ s[p + 1] = "0")
  /\ s[p + 2] \in DigitChars
  /\ s[p + 3] \in DigitChars
  /\ p = 1 \/ s[p - 1] \notin WordChars
  /\ p + 3 = Len(s) \/ s[p + 4] \notin WordChars

YearPositions(s) == { p \in 1..Len(s) : YearTokenAt(s, p) }

\* the r-th year token of the line, from the left
YearToken(s, r) == LET p == NthOf(YearPositions(s), r) IN SubSeq(s, p, p + 3)

\* the loop of extractExperience is at a line inside the section that
\* contains 'education'
AtEducationLine ==
  /\ pc = "experience_loop"
  /\ i <= Len(lines)
  /\ inExperienceSection
  /\ Contains(lines[i], education_kw)

\* the scan ends here: the loop is left and no entry is started or added
ScanEndsHere ==
  /\ pc' = "experience_end"
  /\ experiences' = experiences
  /\ currentExperience' = currentExperience

\* C5 as stated: in extractExperience, once inside the experience section,
\* every line that contains 'education' ends the scan at once; that line
\* starts no entry and no later line is looked at.
C5_AnyEducationLineStops == [][AtEducationLine => ScanEndsHere]_vars

\* C5: in extractExperience, once inside the experience section, every line
\* that contains 'education' and none of the experience header keywords ends
\* the scan at once; that line starts no entry and no later line is looked
\* at, even where they hold year tokens.
C5_EducationLineStops ==
  [][(AtEducationLine /\ ~ContainsSome(lines[i], experienceKeywords)) => ScanEndsHere]_vars

C5_StoppedAtEducation ==
  /\ pc = "experience_end"
  /\ i < Len(lines)
  /\ inExperienceSection
  /\ Contains(lines[i], education_kw)
  /\ ~ContainsSome(lines[i], experienceKeywords)
  /\ \E n \in i..Len(lines) : YearPositions(lines[n]) # {}

\* the lines inside the experience section that hold a year token
DatedExperienceLines == { n \in ExperienceLines : YearPositions(lines[n]) # {} }

\* C6: extractExperience returns exactly one entry for each line inside the
\* experience section that holds a year token, in the order of the lines;
\* the entry has the first year token of its line as startDate and the
\* second, where there is one, as endDate.  The entry pending when the scan
\* ends, at a stop keyword or at the end of the lines, is added exactly once.
C6_OneEntryPerDatedLine ==
  returned =>
    LET result == extractedData.experience
    IN  /\ Len(result) = Cardinality(DatedExperienceLines)
        /\ \A r \in 1..Len(result) :
             LET l == lines[NthOf(DatedExperienceLines, r)]
             IN  /\ result[r].startDate = YearToken(l, 1)
                 /\ result[r].endDate =
                      IF Cardinality(YearPositions(l)) >= 2 THEN YearToken(l, 2) ELSE null

C6_TwoEntriesReturned ==
  /\ returned
  /\ Len(extractedData.experience) = 2
  /\ Cardinality(DatedExperienceLines) = 2
  /\ extractedData.experience[1].startDate # extractedData.experience[2].startDate

\* the lines inside the education section that contain a degree keyword
DegreeLines == { n \in EducationLines : ContainsSome(lines[n], degreeKeywords) }

\* C7: extractEducation returns exactly one entry for each line inside the
\* education section that contains a degree keyword, and the degree of the
\* entry is that line as it stands in the line sequence, letter case kept;
\* the year tokens of the line are its startDate and endDate.
C7_DegreeIsTheLine ==
  returned =>
    LET result == extractedData.education
    IN  /\ Len(result) = Cardinality(DegreeLines)
        /\ \A r \in 1..Len(result) :
             LET l == lines[NthOf(DegreeLines, r)]
             IN  /\ result[r].degree = l
                 /\ Cardinality(YearPositions(l)) >= 2 =>
                       /\ result[r].startDate = YearToken(l, 1)
                       /\ result[r].endDate = YearToken(l, 2)

\* C8: for every line inside the skills section and every term of the
\* vocabulary that is part of the lower-cased line, the result of
\* extractSkills has an entry named by that term; every entry returned has
\* the level 'intermediate'.
C8_EveryTermFound ==
  returned =>
    LET result == extractedData.skills
    IN  /\ \A n \in SkillsLines : \A k \in 1..Len(commonSkills) :
             Contains(lines[n], commonSkills[k]) =>
                \E r \in 1..Len(result) : result[r].name = commonSkills[k]
        /\ \A r \in 1..Len(result) : result[r].level = "intermediate"

C8_MixedCaseSkillsLine ==
  /\ returned
  /\ \E n \in SkillsLines :
       /\ lines[n] # toLowerCase(lines[n])
       /\ Contains(lines[n], javascript_kw)
       /\ ~includes(lines[n], javascript_kw)
  /\ \E r \in 1..Len(extractedData.skills) : extractedData.skills[r].name = javascript_kw
  /\ Len(extractedData.skills) >= 2

\* the record returned, the identifiers of its entries blanked
withoutIds(data) ==
  [ data EXCEPT
      !.experience = [ r \in 1..Len(data.experience) |->
                         [ data.experience[r] EXCEPT !.id = NoUuid ] ],
      !.education  = [ r \in 1..Len(data.education) |->
                         [ data.education[r] EXCEPT !.id = NoUuid ] ] ]

\* this call has returned, and an earlier call with the same text is remembered
SameTextAgain == returned /\ earlier.set /\ earlier.text = text

\* C9: two calls of extractDataFromText with the same text, whatever calls
\* come between them, return records that are equal in every field but the
\* identifiers of the entries: as many entries, in the same order, with the
\* same values.
C9_SameTextSameOutput ==
  SameTextAgain => withoutIds(extractedData) = withoutIds(earlier.data)

C9_RepeatedAfterOtherCall ==
  /\ SameTextAgain
  /\ earlier.between
  /\ Len(extractedData.experience) >= 1
  /\ extractedData.experience[1].id # earlier.data.experience[1].id

Alphanumeric == UpperSet \cup LowerSet \cup DigitChars

\* the characters of s that belong to keep, in their order
Kept(s, keep) == SelectSeq(s, LAMBDA c : c \in keep)

MaxClockSteps == 3

OTP_EXPIRY_MINUTES == 10

\* the addresses and codes of the calls
Emails ==
  { << "a","@","x",".","i","o" >>,   \* 'a@x.io'
    << "b","@","x",".","i","o" >> }  \* 'b@x.io'

Otps ==
  { << "1","2","3","4","5","6" >>,   \* '123456'
    << "6","5","4","3","2","1" >> }  \* '654321'

\* by how much the clock advances in one step: a millisecond, or the time an
\* OTP is valid
ClockSteps == { 1, OTP_EXPIRY_MINUTES * 60 * 1000 }

\* map.set(key, value)
mapSet(map, key, value) ==
  [ k \in DOMAIN map \cup { key } |-> IF k = key THEN value ELSE map[k] ]

\* map.delete(key)
mapDelete(map, key) == [ k \in DOMAIN map \ { key } |-> map[k] ]

\* an expiry an hour after the call
expiresAtAfterAnHour(t) == t + (60 * 60 * 1000)

\* const expires = Date.now() + (OTP_EXPIRY_MINUTES * 60 * 1000)
expiresAt(t) == t + (OTP_EXPIRY_MINUTES * 60 * 1000)

\* a storeOTP that leaves an entry the Map holds for the email as it is
storeOTPKeepingFirst(storage, email, otp, t) ==
  IF email \in DOMAIN storage THEN storage
  ELSE mapSet(storage, email, [ otp |-> otp, expires |-> expiresAt(t) ])

\* otpStorage after storeOTP(email, otp) at time t
storeOTP(storage, email, otp, t) ==
  mapSet(storage, email, [ otp |-> otp, expires |-> expiresAt(t) ])

\* a verifyOTP that takes the entry as expired from the time of expiry on
verifyOTPExpiredAtExpiry(storage, email, providedOTP, t) ==
  IF email \notin DOMAIN storage THEN FALSE
  ELSE IF t >= storage[email].expires THEN FALSE
  ELSE storage[email].otp = providedOTP

\* what verifyOTP(email, providedOTP) returns at time t
verifyOTP(storage, email, providedOTP, t) ==
  IF email \notin DOMAIN storage THEN FALSE
  ELSE IF t > storage[email].expires THEN FALSE
  ELSE storage[email].otp = providedOTP

\* a verifyOTP that leaves the entry of an accepted code in the Map
afterVerifyOTPKeepingAccepted(storage, email, providedOTP, t) ==
  IF email \notin DOMAIN storage THEN storage
  ELSE IF t > storage[email].expires THEN mapDelete(storage, email)
  ELSE storage

\* otpStorage after verifyOTP(email, providedOTP) at time t
afterVerifyOTP(storage, email, providedOTP, t) ==
  IF email \notin DOMAIN storage THEN storage
  ELSE IF t > storage[email].expires THEN mapDelete(storage, email)
  ELSE IF storage[email].otp = providedOTP THEN mapDelete(storage, email)
  ELSE storage

\* the histories after storeOTP(email, otp); replaced is the code of the entry
\* that the call replaces, where that entry holds another code and has not
\* expired
StoreRecorded(email, otp) ==
  /\ storedAt' = mapSet(storedAt, email,
                       [ at |-> now, otp |-> otp,
                         replaced |-> IF /\ email \in DOMAIN otpStorage
                                         /\ now <= otpStorage[email].expires
                                         /\ otpStorage[email].otp # otp
                                      THEN << otpStorage[email].otp >>
                                      ELSE << >> ])
  /\ accepted' = mapSet(accepted, email, << >>)
  /\ lastCall' = [ fn |-> "storeOTP", email |-> email, otp |-> otp, found |-> FALSE,
                   result |-> FALSE, at |-> now ]

\* the histories after verifyOTP(email, providedOTP) returned isValid
VerifyRecorded(email, providedOTP, isValid) ==
  /\ accepted' = IF isValid
                 THEN mapSet(accepted, email,
                             (IF email \in DOMAIN accepted THEN accepted[email] ELSE << >>)
                               \o << providedOTP >>)
                 ELSE accepted
  /\ lastCall' = [ fn |-> "verifyOTP", email |-> email, otp |-> providedOTP,
                   found |-> email \in DOMAIN otpStorage, result |-> isValid, at |-> now ]
  /\ UNCHANGED storedAt

\* storeOTP(email, otp) is called
StoreOTP ==
  \E email \in Emails, otp \in Otps :
    /\ otpStorage' = storeOTP(otpStorage, email, otp, now)
    /\ StoreRecorded(email, otp)
    /\ UNCHANGED << now, clockSteps >>
    /\ UNCHANGED notOtp

\* verifyOTP(email, providedOTP) is called
VerifyOTP ==
  \E email \in Emails, providedOTP \in Otps :
    /\ otpStorage' = afterVerifyOTP(otpStorage, email, providedOTP, now)
    /\ VerifyRecorded(email, providedOTP, verifyOTP(otpStorage, email, providedOTP, now))
    /\ UNCHANGED << now, clockSteps >>
    /\ UNCHANGED notOtp

\* time passes
ClockAdvances ==
  /\ clockSteps < MaxClockSteps
  /\ \E d \in ClockSteps : now' = now + d
  /\ clockSteps' = clockSteps + 1
  /\ UNCHANGED << otpStorage, storedAt, accepted, lastCall >>
  /\ UNCHANGED notOtp

NextOtp ==
  \/ StoreOTP
  \/ VerifyOTP
  \/ ClockAdvances

InitOtp == mode = "single" /\ InitLocals /\ InitOther

\* calls of storeOTP and verifyOTP in any order, with time passing
SpecOtp == InitOtp /\ [][NextOtp]_vars

(***************************************************************************)
(* Properties of storeOTP and verifyOTP.                                   *)
(***************************************************************************)
\* this step is a call verifyOTP(email, code)
VerifyStep(email, code) ==
  /\ lastCall'.fn = "verifyOTP"
  /\ lastCall'.email = email
  /\ lastCall'.otp = code
  /\ now' = now
  /\ clockSteps' = clockSteps

\* C12: a one-time password is used once: between one call of storeOTP for
\* an email and the next, at most one call of verifyOTP for that email
\* returns true, whatever the codes and the order of the calls; once one has,
\* no entry is left for the email.
C12_AcceptedOnce ==
  \A email \in DOMAIN accepted :
    /\ Len(accepted[email]) <= 1
    /\ Len(accepted[email]) = 1 => email \notin DOMAIN otpStorage

C12_SecondUseRefused ==
  /\ lastCall.fn = "verifyOTP"
  /\ lastCall.email \in DOMAIN accepted
  /\ accepted[lastCall.email] = << lastCall.otp >>
  /\ ~lastCall.result
  /\ lastCall.at = storedAt[lastCall.email].at

\* C13: verifyOTP(email, code) returns true exactly when an entry is stored
\* for the email, the time is not later than the expiry of the entry, and
\* the code is the code of the entry.
C13_TrueExactlyWhenValid ==
  [][\A email \in Emails, code \in Otps :
       VerifyStep(email, code) =>
         (lastCall'.result <=>
            /\ email \in DOMAIN otpStorage
            /\ now <= otpStorage[email].expires
            /\ otpStorage[email].otp = code)]_vars

C13_AcceptedAtExpiry ==
  /\ lastCall.fn = "verifyOTP"
  /\ lastCall.result
  /\ lastCall.at = storedAt[lastCall.email].at + (10 * 60 * 1000)

\* C14: a call of verifyOTP made more than 10 minutes after the last
\* storeOTP for the email returns false, also for the code stored, and no
\* entry is left for the email after it.
C14_ExpiredAfterTenMinutes ==
  [][\A email \in Emails, code \in Otps :
       (/\ VerifyStep(email, code)
        /\ email \in DOMAIN storedAt
        /\ now > storedAt[email].at + (10 * 60 * 1000)) =>
          /\ ~lastCall'.result
          /\ email \notin DOMAIN otpStorage']_vars

C14_StoredCodeRefusedLate ==
  /\ lastCall.fn = "verifyOTP"
  /\ lastCall.found
  /\ ~lastCall.result
  /\ lastCall.otp = storedAt[lastCall.email].otp
  /\ lastCall.at = storedAt[lastCall.email].at + (10 * 60 * 1000) + 1
  /\ accepted[lastCall.email] = << >>
  /\ lastCall.email \notin DOMAIN otpStorage

(***************************************************************************)
(* The handlers of /api/auth/send-otp and /api/auth/verify-otp.  A handler *)
(* runs without interruption from the arrival of its request to its first  *)
(* await or to its response, and from the settling of an awaited promise   *)
(* to the next await or to the response; between these, the other slot may *)
(* take steps.                                                             *)
(***************************************************************************)
Methods == { "POST", "GET" }

\* req.body.email: missing, without '@', or an address
BodyEmails ==
  { undefined,
    << "a","b" >>,                     \* 'ab'
    << "a","@","x",".","i","o" >> }    \* 'a@x.io'

\* req.body.otp: missing, or a code
BodyOtps == { undefined } \cup Otps

\* !value
falsy(value) == value = << >> \/ value = null \/ value = undefined

\* !email alone
invalidEmailOnlyMissing(email) == falsy(email)

\* !email || !email.includes('@')
invalidEmail(email) == falsy(email) \/ ~includes(email, << "@" >>)

\* res.status(status).json({ success, message, error, token, user }): the
\* response is sent and the handler is done with the request
Respond(r, request, status, success, message, error, token, user) ==
  /\ lastResponse' =
       [ slot |-> r, turn |-> ~lastResponse.turn, status |-> status,
         success |-> success, message |-> message, error |-> error, token |-> token,
         user |-> user, request |-> request ]
  /\ requests' = [ requests EXCEPT ![r] = noRequest ]

\* the handler goes on to an await
Await(r, request) ==
  /\ requests' = [ requests EXCEPT ![r] = request ]
  /\ UNCHANGED lastResponse

\* the locals of a handler when its request arrives
received(handler, method, email, otp) ==
  [ noRequest EXCEPT !.pc = "received", !.handler = handler, !.method = method,
                     !.email = email, !.otp = otp ]

\* send-otp: from the arrival of the request to the await of sendOTP
SendOtpRequest(r) ==
  /\ requests[r].pc = "idle"
  /\ \E method \in Methods :
     \E email \in (IF method = "POST" THEN BodyEmails ELSE { undefined }) :
       LET request == received("send-otp", method, email, undefined)
       IN  IF method # "POST"
           THEN /\ Respond(r, request, 405, FALSE, "", "Method not allowed", << >>, << >>)
                /\ UNCHANGED otpVars
           ELSE IF invalidEmail(email)
           THEN /\ Respond(r, request, 400, FALSE, "", "Valid email is required", << >>, << >>)
                /\ UNCHANGED otpVars
           ELSE \E otp \in Otps :
                  /\ otpStorage' = storeOTP(otpStorage, email, otp, now)
                  /\ StoreRecorded(email, otp)
                  /\ Await(r, [ request EXCEPT
                                  !.pc = "sendOTP",
                                  !.generated = otp,
                                  !.calls = << "generateOTP", "storeOTP", "sendOTP" >>,
                                  !.storeArgs = << email, otp >>,
                                  !.sendArgs = << email, otp >> ])
                  /\ UNCHANGED << now, clockSteps >>
  /\ UNCHANGED users
  /\ UNCHANGED notApi

\* a handler of send-otp that does not look at what sendOTP returned
SendOTPSettlesUnchecked(r) ==
  /\ requests[r].pc = "sendOTP"
  /\ \E emailSent \in BOOLEAN :
       Respond(r, [ requests[r] EXCEPT !.emailSent = emailSent ],
               200, TRUE, "OTP sent successfully", "", << >>, << >>)
  /\ UNCHANGED users
  /\ UNCHANGED otpVars
  /\ UNCHANGED notApi

\* send-otp: sendOTP returns true (the mail client took the message) or
\* false (it raised an error), and the handler responds
SendOTPSettles(r) ==
  /\ requests[r].pc = "sendOTP"
  /\ \E emailSent \in BOOLEAN :
       LET request == [ requests[r] EXCEPT !.emailSent = emailSent ]
       IN  IF ~emailSent
           THEN Respond(r, request, 500, FALSE, "", "Failed to send OTP email", << >>, << >>)
           ELSE Respond(r, request, 200, TRUE, "OTP sent successfully", "", << >>, << >>)
  /\ UNCHANGED users
  /\ UNCHANGED otpVars
  /\ UNCHANGED notApi

\* SELECT * FROM c WHERE c.email = @email
usersWithEmail(items, email) == SelectSeq(items, LAMBDA u : u.email = email)

\* container.item(user.id).replace(user)
replaceItem(items, user) ==
  [ k \in 1..Len(items) |-> IF items[k].id = user.id THEN user ELSE items[k] ]

\* const newUser: User = { id: uuidv4(), email, ... }
newUser(id, email, t) ==
  [ id |-> id, email |-> email, created_at |-> t, last_login |-> t,
    subscription_type |-> "free" ]

\* jwt.sign({ userId, email, subscription }, JWT_SECRET, { expiresIn: '7d' })
generateJWT(user) ==
  [ userId |-> user.id, email |-> user.email, subscription |-> user.subscription_type ]

\* the catch clause of the handlers
InternalServerError(r, request) ==
  Respond(r, request, 500, FALSE, "Internal server error", "", << >>, << >>)

\* verify-otp, after findOrCreateUser returned user: the token is generated
\* and the response is sent
Authenticated(r, request, user) ==
  Respond(r, [ request EXCEPT !.user = << user >>,
                              !.calls = Append(request.calls, "generateJWT") ],
          200, TRUE, "Authentication successful", "", << generateJWT(user) >>, << user >>)

\* a check of isValidOTP that lets every request through
refusedNever(isValidOTP) == FALSE

\* if (!isValidOTP)
refused(isValidOTP) == ~isValidOTP

\* verify-otp: from the arrival of the request to the await of the query of
\* findOrCreateUser
VerifyOtpRequest(r) ==
  /\ requests[r].pc = "idle"
  /\ \E method \in Methods :
     \E email \in (IF method = "POST" THEN BodyEmails ELSE { undefined }) :
     \E otp \in (IF method = "POST" THEN BodyOtps ELSE { undefined }) :
       LET request == received("verify-otp", method, email, otp)
       IN  IF method # "POST"
           THEN /\ Respond(r, request, 405, FALSE, "Method not allowed", "", << >>, << >>)
                /\ UNCHANGED otpVars
           ELSE IF falsy(email) \/ falsy(otp)
           THEN /\ Respond(r, request, 400, FALSE, "Email and OTP are required", "",
                           << >>, << >>)
                /\ UNCHANGED otpVars
           ELSE LET isValidOTP == verifyOTP(otpStorage, email, otp, now)
                    verified   == [ request EXCEPT !.isValidOTP = isValidOTP,
                                                   !.calls = << "verifyOTP" >>,
                                                   !.verifyArgs = << email, otp >> ]
                IN  /\ otpStorage' = afterVerifyOTP(otpStorage, email, otp, now)
                    /\ VerifyRecorded(email, otp, isValidOTP)
                    /\ UNCHANGED << now, clockSteps >>
                    /\ IF refused(isValidOTP)
                       THEN Respond(r, verified, 400, FALSE, "Invalid or expired OTP", "",
                                    << >>, << >>)
                       ELSE Await(r, [ verified EXCEPT
                                         !.pc = "query",
                                         !.calls = << "verifyOTP", "findOrCreateUser" >>,
                                         !.findArgs = << email >> ])
  /\ UNCHANGED users
  /\ UNCHANGED notApi

\* findOrCreateUser: the query settles.  It rejects, and the error reaches
\* the catch clause of the handler; or it resolves, and the user found is
\* replaced with a new last_login, or a new user is created.
QuerySettles(r) ==
  /\ requests[r].pc = "query"
  /\ \E ok \in BOOLEAN :
       IF ~ok THEN InternalServerError(r, requests[r])
       ELSE LET resources == usersWithEmail(users, requests[r].email)
            IN  IF Len(resources) > 0
                THEN Await(r, [ requests[r] EXCEPT
                                  !.pc = "replace",
                                  !.user = << [ resources[1] EXCEPT !.last_login = now ] >> ])
                ELSE \E id \in Uuids :
                       Await(r, [ requests[r] EXCEPT
                                    !.pc = "create",
                                    !.user = << newUser(id, requests[r].email, now) >> ])
  /\ UNCHANGED users
  /\ UNCHANGED otpVars
  /\ UNCHANGED notApi

\* findOrCreateUser: container.item(user.id).replace(user) settles
ReplaceSettles(r) ==
  /\ requests[r].pc = "replace"
  /\ \E ok \in BOOLEAN :
       IF ~ok THEN InternalServerError(r, requests[r]) /\ UNCHANGED users
       ELSE /\ users' = replaceItem(users, requests[r].user[1])
            /\ Authenticated(r, requests[r], requests[r].user[1])
  /\ UNCHANGED otpVars
  /\ UNCHANGED notApi

\* findOrCreateUser: container.items.create(newUser) settles; the container
\* takes no second item with an id it holds
CreateSettles(r) ==
  /\ requests[r].pc = "create"
  /\ \E ok \in BOOLEAN :
       IF ~ok \/ \E k \in 1..Len(users) : users[k].id = requests[r].user[1].id
       THEN InternalServerError(r, requests[r]) /\ UNCHANGED users
       ELSE /\ users' = Append(users, requests[r].user[1])
            /\ Authenticated(r, requests[r], requests[r].user[1])
  /\ UNCHANGED otpVars
  /\ UNCHANGED notApi

NextApi ==
  \/ \E r \in Slots : SendOtpRequest(r)
  \/ \E r \in Slots : SendOTPSettles(r)
  \/ \E r \in Slots : VerifyOtpRequest(r)
  \/ \E r \in Slots : QuerySettles(r)
  \/ \E r \in Slots : ReplaceSettles(r)
  \/ \E r \in Slots : CreateSettles(r)

InitApi == mode = "single" /\ InitLocals /\ InitOther

\* requests to the two handlers, two at a time
SpecApi == InitApi /\ [][NextApi]_vars

(***************************************************************************)
(* Properties of the auth handlers.                                        *)
(***************************************************************************)
\* the last response answered a request to the handler
RespondedTo(handler) == lastResponse.request.handler = handler

\* this step sends a response
ResponseStep == lastResponse'.turn # lastResponse.turn

\* C15: the response of verify-otp holds a token or a user only when
\* verifyOTP(email, otp) returned true for the request answered and
\* findOrCreateUser returned a user, and then with status 200; when
\* verifyOTP returned false the response is 400 'Invalid or expired OTP' and
\* neither findOrCreateUser nor generateJWT was called; when email or otp is
\* missing the response is 400 and verifyOTP was not called.
C15_TokenOnlyWhenVerified ==
  RespondedTo("verify-otp") =>
    LET request == lastResponse.request
    IN  /\ (lastResponse.token # << >> \/ lastResponse.user # << >>) =>
              /\ lastResponse.status = 200
              /\ request.isValidOTP
              /\ request.verifyArgs = << request.email, request.otp >>
              /\ request.calls = << "verifyOTP", "findOrCreateUser", "generateJWT" >>
              /\ lastResponse.user = request.user
              /\ lastResponse.user # << >>
        /\ (request.verifyArgs # << >> /\ ~request.isValidOTP) =>
              /\ lastResponse.status = 400
              /\ lastResponse.message = "Invalid or expired OTP"
              /\ request.calls = << "verifyOTP" >>
              /\ lastResponse.token = << >>
              /\ lastResponse.user = << >>
        /\ (request.method = "POST" /\ (request.email = undefined \/ request.otp = undefined)) =>
              /\ lastResponse.status = 400
              /\ request.calls = << >>

C15_TokenSent ==
  /\ RespondedTo("verify-otp")
  /\ lastResponse.status = 200
  /\ lastResponse.token # << >>
  /\ lastResponse.request.isValidOTP
  /\ \E r \in Slots : requests[r].handler = "verify-otp" /\ requests[r].pc = "query"

\* C16: a request to send-otp that is not a POST is answered with 405, and
\* a POST whose email is missing or has no '@' with 400 'Valid email is
\* required'; in both cases generateOTP, storeOTP and sendOTP are not called
\* and the step leaves the OTP storage as it was.
C16_RejectedWithoutOtp ==
  [][(ResponseStep /\ lastResponse'.request.handler = "send-otp") =>
       LET request == lastResponse'.request
       IN  /\ request.method # "POST" =>
                /\ lastResponse'.status = 405
                /\ request.calls = << >>
                /\ otpStorage' = otpStorage
           /\ (/\ request.method = "POST"
               /\ \/ request.email = undefined
                  \/ \A k \in 1..Len(request.email) : request.email[k] # "@") =>
                /\ lastResponse'.status = 400
                /\ lastResponse'.error = "Valid email is required"
                /\ request.calls = << >>
                /\ otpStorage' = otpStorage]_vars

C16_RejectedWhileOtpStored ==
  /\ RespondedTo("send-otp")
  /\ lastResponse.status = 400
  /\ lastResponse.request.email = << "a","b" >>
  /\ DOMAIN otpStorage # {}

\* C17: for a POST to send-otp with an email that has an '@', the handler
\* called generateOTP once, then storeOTP with the email and the code
\* generated, then sendOTP with the same email and code; its response is 200
\* 'OTP sent successfully' exactly when sendOTP returned true, and 500
\* 'Failed to send OTP email' when it returned false.
C17_GeneratedStoredSent ==
  (/\ RespondedTo("send-otp")
   /\ lastResponse.request.method = "POST"
   /\ lastResponse.request.email # undefined
   /\ \E k \in 1..Len(lastResponse.request.email) : lastResponse.request.email[k] = "@") =>
    LET request == lastResponse.request
    IN  /\ request.calls = << "generateOTP", "storeOTP", "sendOTP" >>
        /\ request.generated \in Otps
        /\ request.storeArgs = << request.email, request.generated >>
        /\ request.sendArgs = << request.email, request.generated >>
        /\ (lastResponse.status = 200) <=> request.emailSent
        /\ (lastResponse.status = 200) => lastResponse.message = "OTP sent successfully"
        /\ ~request.emailSent =>
              /\ lastResponse.status = 500
              /\ lastResponse.error = "Failed to send OTP email"

C17_SendFailedAfterStore ==
  /\ RespondedTo("send-otp")
  /\ lastResponse.status = 500
  /\ lastResponse.request.calls = << "generateOTP", "storeOTP", "sendOTP" >>
  /\ lastResponse.request.email \in DOMAIN otpStorage
  /\ otpStorage[lastResponse.request.email].otp = lastResponse.request.generated

(***************************************************************************)
(* The Login page.  The user types, submits a form or clicks a button; a   *)
(* request of the page is answered later, and until then the user may go   *)
(* on using what the page shows and has not disabled.                      *)
(***************************************************************************)
\* what the user types into the email field
TypedEmails ==
  { << >>,
    << "a","@","x",".","i","o" >> }    \* 'a@x.io'

\* what the user types into the code field
TypedOtps ==
  { << >>,
    << "1","2","a","3" >>,                  \* '12a3'
    << "1","2","3","4","5","6","7" >> }     \* '1234567'

\* how a request of the page ends: the response says success, the response
\* says no success and gives a text or none, or the request fails with a
\* response that gives a text or none
Answers == { "success", "refused with text", "refused", "failed with text", "failed" }

\* e.target.value.replace(/\D/g, '').slice(0, 6)
otpInput(value) ==
  LET digits == removeAllBut(value, DigitChars)
  IN  SubSeq(digits, 1, IF Len(digits) < 6 THEN Len(digits) ELSE 6)

onLoginPage == login.route = "/login"

Event(name, sinceBack) == loginHistory' = [ lastEvent |-> name, sinceBack |-> sinceBack ]

\* onChange of the email field: setEmail(e.target.value)
ChangeEmail ==
  /\ onLoginPage
  /\ login.step = "email"
  /\ \E value \in TypedEmails : login' = [ login EXCEPT !.email = value ]
  /\ Event("change email", loginHistory.sinceBack)
  /\ UNCHANGED pending
  /\ UNCHANGED notLogin

\* onChange of the code field
ChangeOtp ==
  /\ onLoginPage
  /\ login.step = "otp"
  /\ \E value \in TypedOtps : login' = [ login EXCEPT !.otp = otpInput(value) ]
  /\ Event("change otp", loginHistory.sinceBack)
  /\ UNCHANGED pending
  /\ UNCHANGED notLogin

\* handleSendOTP up to the await of axios.post('/api/auth/send-otp')
startSendOTP(page) == [ page EXCEPT !.loading = TRUE, !.error = "", !.success = "" ]

\* the email form is submitted: its button is disabled while loading or with
\* no email
SubmitEmailForm ==
  /\ onLoginPage
  /\ login.step = "email"
  /\ ~login.loading
  /\ login.email # << >>
  /\ login' = startSendOTP(login)
  /\ pending' = "send-otp"
  /\ Event("submit email", FALSE)
  /\ UNCHANGED notLogin

\* 'Didn't receive the code? Resend' is clicked: disabled while loading
ClickResend ==
  /\ onLoginPage
  /\ login.step = "otp"
  /\ ~login.loading
  /\ login' = startSendOTP(login)
  /\ pending' = "send-otp"
  /\ Event("resend", loginHistory.sinceBack)
  /\ UNCHANGED notLogin

\* handleSendOTP from the answer of the request on
SendOtpAnswered ==
  /\ pending = "send-otp"
  /\ \E answer \in Answers :
       /\ login' =
            IF answer = "success"
            THEN [ login EXCEPT !.step = "otp",
                                !.success = "OTP sent to your email. Please check your inbox.",
                                !.loading = FALSE ]
            ELSE IF answer \in { "refused with text", "failed with text" }
            THEN [ login EXCEPT !.error = "Failed to send OTP email", !.loading = FALSE ]
            ELSE [ login EXCEPT !.error = "Failed to send OTP", !.loading = FALSE ]
       /\ Event(IF answer = "success" THEN "send-otp succeeded" ELSE "send-otp failed",
                loginHistory.sinceBack)
  /\ pending' = "none"
  /\ UNCHANGED notLogin

\* the code form is submitted: its button is disabled while loading or with
\* a code that has not 6 digits
SubmitOtpForm ==
  /\ onLoginPage
  /\ login.step = "otp"
  /\ ~login.loading
  /\ Len(login.otp) = 6
  /\ login' = [ login EXCEPT !.loading = TRUE, !.error = "" ]
  /\ pending' = "verify-otp"
  /\ Event("submit otp", loginHistory.sinceBack)
  /\ UNCHANGED notLogin

\* handleVerifyOTP from the answer of the request on
VerifyOtpAnswered ==
  /\ pending = "verify-otp"
  /\ \E answer \in Answers :
       /\ login' =
            IF answer = "success"
            THEN [ login EXCEPT !.route = "/dashboard", !.loading = FALSE ]
            ELSE IF answer \in { "refused with text", "failed with text" }
            THEN [ login EXCEPT !.error = "Invalid or expired OTP", !.loading = FALSE ]
            ELSE [ login EXCEPT !.error = "Invalid OTP", !.loading = FALSE ]
       /\ Event(IF answer = "success" THEN "verify-otp succeeded" ELSE "verify-otp failed",
                loginHistory.sinceBack)
  /\ pending' = "none"
  /\ UNCHANGED notLogin

\* handleBackToEmail: the button is shown in step 'otp' and never disabled
ClickBackToEmail ==
  /\ onLoginPage
  /\ login.step = "otp"
  /\ login' = [ login EXCEPT !.step = "email", !.otp = << >>, !.error = "", !.success = "" ]
  /\ Event("back to email", TRUE)
  /\ UNCHANGED pending
  /\ UNCHANGED notLogin

NextLogin ==
  \/ ChangeEmail
  \/ ChangeOtp
  \/ SubmitEmailForm
  \/ ClickResend
  \/ SendOtpAnswered
  \/ SubmitOtpForm
  \/ VerifyOtpAnswered
  \/ ClickBackToEmail

InitLogin == mode = "single" /\ InitLocals /\ InitOther

\* a user on the Login page
SpecLogin == InitLogin /\ [][NextLogin]_vars

(***************************************************************************)
(* Properties of the Login page.                                           *)
(***************************************************************************)
\* the step in which the page takes the answer of a send-otp request
SendAnswerStep(name) == pending = "send-otp" /\ loginHistory'.lastEvent = name

\* the step in which 'Back to email' is clicked
BackStep == login.step = "otp" /\ loginHistory'.lastEvent = "back to email"

\* the step moves to 'otp' on a successful answer to send-otp only, and a
\* failed send leaves the step alone and sets an error
StepMovesOnSuccessOnly ==
  /\ (login.step = "email" /\ login'.step = "otp") => SendAnswerStep("send-otp succeeded")
  /\ SendAnswerStep("send-otp failed") => (login'.step = login.step /\ login'.error # "")

\* 'Back to email' leaves the page in step 'email' with no code, no error and
\* no message of success
BackClears ==
  BackStep =>
    /\ login'.step = "email"
    /\ login'.otp = << >>
    /\ login'.error = ""
    /\ login'.success = ""

\* every step of the page moves to 'otp' on a successful answer only
LoginStepMovesOnSuccessOnly == [][StepMovesOnSuccessOnly]_vars

\* every click on 'Back to email' clears the page
LoginBackClears == [][BackClears]_vars

\* C18: the page starts in step 'email'; the step moves to 'otp' on a
\* successful answer to send-otp only, a failed send leaving the step alone
\* and setting an error; 'Back to email' leaves step 'email' with the code,
\* the error and the message of success cleared, and the step stays 'email'
\* until the email form is submitted again.
C18_StepMachine ==
  [][ /\ (loginHistory.lastEvent = "none" => login.step = "email")
      /\ StepMovesOnSuccessOnly
      /\ BackClears
      /\ (loginHistory'.sinceBack => login'.step = "email") ]_vars

\* the page shows the code form although 'Back to email' was clicked and the
\* email form was not submitted since
C18_BackUndoneByResend == loginHistory.sinceBack /\ login.step = "otp"

(***************************************************************************)
(* Properties of the scans of the three section extractors.                *)
(***************************************************************************)
\* the scan is at a line that is a header of the section or comes before
\* every header of the section
AtHeaderOrBefore(loop, headers) ==
  /\ pc = loop
  /\ i <= Len(lines)
  /\ ContainsSome(lines[i], headers) \/ ~AfterHeader(lines, headers, i)

\* the scan is at a header line of the section
AtHeader(loop, headers) ==
  /\ pc = loop
  /\ i <= Len(lines)
  /\ ContainsSome(lines[i], headers)

\* C19: in extractExperience, extractSkills and extractEducation a line that
\* comes before the first header line of the section, or that is a header
\* line of the section, gives no entry and starts none, whatever year tokens,
\* degree keywords or vocabulary terms it holds; a header line only puts the
\* scan inside the section, and the scan goes on with the next line.
C19_HeaderLinesAreNotData ==
  [][ /\ AtHeaderOrBefore("experience_loop", experienceKeywords) =>
           /\ experiences' = experiences
           /\ currentExperience' = currentExperience
      /\ AtHeader("experience_loop", experienceKeywords) =>
           inExperienceSection' /\ pc' = pc /\ i' = i + 1
      /\ AtHeaderOrBefore("skills_loop", skillKeywords) => skills' = skills
      /\ AtHeader("skills_loop", skillKeywords) =>
           inSkillsSection' /\ pc' = pc /\ i' = i + 1
      /\ AtHeaderOrBefore("education_loop", educationKeywords) => education' = education
      /\ AtHeader("education_loop", educationKeywords) =>
           inEducationSection' /\ pc' = pc /\ i' = i + 1 ]_vars

\* the vocabulary terms that are part of the lower-cased line
TermsIn(rawLine) == { k \in 1..Len(commonSkills) : Contains(rawLine, commonSkills[k]) }

C19_HeadersWithDataReturned ==
  /\ returned
  /\ Len(lines) = 4
  /\ ~ContainsSome(lines[1], experienceKeywords) /\ YearPositions(lines[1]) # {}
  /\ ContainsSome(lines[2], experienceKeywords) /\ YearPositions(lines[2]) # {}
  /\ ContainsSome(lines[3], skillKeywords) /\ TermsIn(lines[3]) # {}
  /\ ContainsSome(lines[4], educationKeywords) /\ ContainsSome(lines[4], degreeKeywords)
  /\ extractedData.experience = << >>
  /\ extractedData.skills = << >>
  /\ extractedData.education = << >>

\* the lines between the first header line of the section and the first
\* line after it that contains a stop word, header line or not
LinesUpToStopWord(ls, headers, stops) ==
  { n \in 1..Len(ls) :
      /\ AfterHeader(ls, headers, n)
      /\ \A m \in 1..n : ~(AfterHeader(ls, headers, m) /\ ContainsSome(ls[m], stops)) }

\* how many vocabulary terms the lines of the set hold, line by line
RECURSIVE TermTotal(_)
TermTotal(S) ==
  IF S = {} THEN 0
  ELSE LET n == CHOOSE m \in S : TRUE
       IN  Cardinality(TermsIn(lines[n])) + TermTotal(S \ { n })

\* C20 as stated: the entries of each section extractor come only from lines
\* between the first header line of the section and the first line after it
\* that contains a keyword of another section; no line after that one gives
\* an entry, even if the header occurs again.
C20_NoEntryAfterStopWord ==
  returned =>
    /\ Len(extractedData.experience) <=
         Cardinality({ n \in LinesUpToStopWord(lines, experienceKeywords, ExperienceStopWords) :
                         YearPositions(lines[n]) # {} })
    /\ Len(extractedData.skills) <=
         TermTotal(LinesUpToStopWord(lines, skillKeywords, SkillsStopWords))
    /\ Len(extractedData.education) <=
         Cardinality({ n \in LinesUpToStopWord(lines, educationKeywords, EducationStopWords) :
                         ContainsSome(lines[n], degreeKeywords) })

\* the scan of the section has ended at line i before the end of the lines
StoppedAt(end, headers, stops) ==
  (pc = end /\ i <= Len(lines)) =>
     /\ EndsSection(lines, headers, stops, i)
     /\ \A m \in 1..(i - 1) : ~EndsSection(lines, headers, stops, m)

\* C20: the scan of each section extractor is before the section, inside it
\* or done, and stays done: it ends at the first line after a header line
\* that contains a keyword of another section and no header keyword of its
\* own, and the entries returned are those of the lines between the first
\* header line and that line, header lines apart; no line after it gives an
\* entry, even if the header occurs again.
C20_ScanEndsOnce ==
  /\ StoppedAt("experience_end", experienceKeywords, ExperienceStopWords)
  /\ StoppedAt("skills_end", skillKeywords, SkillsStopWords)
  /\ StoppedAt("education_end", educationKeywords, EducationStopWords)
  /\ returned =>
       /\ Len(extractedData.experience) = Cardinality(DatedExperienceLines)
       /\ Len(extractedData.skills) = TermTotal(SkillsLines)
       /\ Len(extractedData.education) = Cardinality(DegreeLines)

\* a header, a line that ends the section, the header again and a data line
HeaderAgainAfterEnd(headers, stops) ==
  /\ Len(lines) = 4
  /\ ContainsSome(lines[1], headers)
  /\ EndsSection(lines, headers, stops, 2)
  /\ ContainsSome(lines[3], headers)
  /\ ~ContainsSome(lines[4], headers)

C20_HeaderAgainIgnored ==
  /\ returned
  /\ HeaderAgainAfterEnd(skillKeywords, SkillsStopWords)
  /\ TermsIn(lines[4]) # {}
  /\ YearPositions(lines[4]) # {}
  /\ extractedData.skills = << >>

(***************************************************************************)
(* Properties of the entries of the three lists.                           *)
(***************************************************************************)
\* the line up to its first digit, the digit left out
UpToFirstDigit(s) ==
  LET digits == { p \in 1..Len(s) : s[p] \in DigitChars }
  IN  IF digits = {} THEN s ELSE SubSeq(s, 1, NthOf(digits, 1) - 1)

\* the string from its first to its last character that is not whitespace
Stripped(s) ==
  LET solid == { p \in 1..Len(s) : s[p] \notin WhiteSpace }
  IN  IF solid = {} THEN << >>
      ELSE SubSeq(s, NthOf(solid, 1), NthOf(solid, Cardinality(solid)))

\* C21: each entry of extractExperience is built from its own line only:
\* company is the text of the line before its first digit, trimmed;
\* startDate is the first year token; endDate is null when the line has
\* exactly one year token; position and description are '' and achievements
\* is the empty list, whatever lines follow.
C21_EntryFromItsLine ==
  returned =>
    LET result == extractedData.experience
    IN  \A r \in 1..Len(result) :
          r <= Cardinality(DatedExperienceLines) =>
            LET l == lines[NthOf(DatedExperienceLines, r)]
            IN  /\ result[r].company = Stripped(UpToFirstDigit(l))
                /\ result[r].startDate = YearToken(l, 1)
                /\ Cardinality(YearPositions(l)) = 1 => result[r].endDate = null
                /\ result[r].position = << >>
                /\ result[r].description = << >>
                /\ result[r].achievements = << >>

C21_OpenEndedEntryFollowed ==
  /\ returned
  /\ Len(extractedData.experience) = 2
  /\ Cardinality(DatedExperienceLines) = 2
  /\ extractedData.experience[1].endDate = null
  /\ extractedData.experience[1].company # << >>
  /\ extractedData.experience[2].endDate # null

\* how many year tokens the line holds
YearCount(l) == Cardinality(YearPositions(l))

\* C22: for each entry of extractEducation, startDate is the first year token
\* of its line and endDate the second, or the first when the line has only
\* one; when the line has no year token both are ''; institution and field
\* are ''.
C22_EducationDates ==
  returned =>
    LET result == extractedData.education
        degrees == DegreeLines
    IN  \A r \in 1..Len(result) :
          r <= Cardinality(degrees) =>
            LET l == lines[NthOf(degrees, r)]
                years == YearCount(l)
            IN  /\ { "startDate", "endDate", "institution", "field" } \subseteq DOMAIN result[r]
                /\ result[r].startDate = IF years = 0 THEN << >> ELSE YearToken(l, 1)
                /\ result[r].endDate =
                     IF years >= 2 THEN YearToken(l, 2)
                     ELSE IF years = 1 THEN YearToken(l, 1)
                     ELSE << >>
                /\ result[r].institution = << >>
                /\ result[r].field = << >>

C22_NoOneAndTwoYears ==
  /\ returned
  /\ Len(extractedData.education) = 3
  /\ Cardinality(DegreeLines) = 3
  /\ { YearCount(lines[n]) : n \in DegreeLines } = { 0, 1, 2 }
  /\ \E r \in 1..3 : extractedData.education[r].endDate = << >>
  /\ \E r \in 1..3 : /\ extractedData.education[r].endDate # << >>
                     /\ extractedData.education[r].endDate = extractedData.education[r].startDate

\* the pairs of a line inside the skills section and a vocabulary term that
\* is part of the lower-cased line
SkillPairs == { pr \in SkillsLines \X (1..Len(commonSkills)) : pr[2] \in TermsIn(lines[pr[1]]) }

\* the place of a pair among the pairs, by line and then by vocabulary order
PairRank(pairs, pr) ==
  Cardinality({ q \in pairs : q[1] < pr[1] \/ (q[1] = pr[1] /\ q[2] <= pr[2]) })

java_kw == << "j","a","v","a" >>

sql_kw == << "s","q","l" >>

\* C23: extractSkills returns one entry for each pair of a line inside the
\* skills section and a vocabulary term that is part of the lower-cased
\* line, ordered by line and then by vocabulary order, with no entry left
\* out as a duplicate: a term on two lines is returned twice, and a line
\* with 'javascript' gives an entry 'javascript' and an entry 'java'.
C23_OneEntryPerLineAndTerm ==
  returned =>
    LET result == extractedData.skills
        pairs == SkillPairs
    IN  /\ Len(result) = Cardinality(pairs)
        /\ \A pr \in pairs : result[PairRank(pairs, pr)].name = commonSkills[pr[2]]

C23_TermTwiceAndJava ==
  /\ returned
  /\ \E n \in SkillsLines :
       /\ Contains(lines[n], javascript_kw)
       /\ \E r \in 1..(Len(extractedData.skills) - 1) :
            /\ extractedData.skills[r].name = javascript_kw
            /\ extractedData.skills[r + 1].name = java_kw
  /\ Cardinality({ r \in 1..Len(extractedData.skills) :
                     extractedData.skills[r].name = sql_kw }) = 2
  /\ Cardinality({ n \in SkillsLines : Contains(lines[n], sql_kw) }) = 2

(***************************************************************************)
(* Properties of the user records and of the codes of one address.         *)
(***************************************************************************)
\* no two records of the list have the same email
OneRecordPerEmail(items) ==
  \A j, k \in 1..Len(items) : items[j].email = items[k].email => j = k

\* C24: at most one user record exists per email, however the calls of
\* findOrCreateUser for one email interleave: no second record with the
\* email is created; and a step that creates no record changes nothing of
\* the records but last_login.
C24_OneUserPerEmail ==
  [][ /\ OneRecordPerEmail(users')
      /\ Len(users') = Len(users) =>
           \A k \in 1..Len(users) :
             users'[k] = [ users[k] EXCEPT !.last_login = users'[k].last_login ] ]_vars

\* two users with one email, each returned with status 200
C24_TwoUsersOneEmail ==
  /\ ~OneRecordPerEmail(users)
  /\ lastResponse.status = 200

\* C25: at most one code is valid for an email at any time: a call of
\* verifyOTP that returns true was given the code of the latest storeOTP for
\* the email, not later than 10 minutes after that call of storeOTP; every
\* code stored earlier for the email is refused.
C25_OnlyLatestCodeVerifies ==
  [][\A email \in Emails, code \in Otps :
       (VerifyStep(email, code) /\ lastCall'.result) =>
          /\ email \in DOMAIN storedAt
          /\ code = storedAt[email].otp
          /\ now <= storedAt[email].at + (10 * 60 * 1000)]_vars

\* the code that a later storeOTP replaced before its expiry is refused at
\* the time of that storeOTP
C25_ReplacedCodeRefused ==
  /\ lastCall.fn = "verifyOTP"
  /\ ~lastCall.result
  /\ lastCall.email \in DOMAIN storedAt
  /\ storedAt[lastCall.email].replaced = << lastCall.otp >>
  /\ storedAt[lastCall.email].otp # lastCall.otp
  /\ lastCall.at = storedAt[lastCall.email].at
  /\ lastCall.at > 0
  /\ lastCall.email \in DOMAIN otpStorage

(***************************************************************************)
(* The handlers of /api/upload-resume and /api/generate-resume.  As with    *)
(* the auth handlers, a handler runs without interruption between two      *)
(* awaits, and every awaited call resolves or rejects; here a request is   *)
(* answered before the next arrives.  A record holds the                   *)
(* fields that the handlers compare or pass on; an option is << >> or      *)
(* << value >>.                                                             *)
(***************************************************************************)
\* req.headers.authorization with 'Bearer ' removed: none, one that does not
\* verify, and the tokens of two users
Tokens == { "", "invalid", "token-1", "token-2" }

\* decoded.userId of a token that verifies
tokenUser(token) ==
  IF token = "token-1" THEN << "user-1" >>
  ELSE IF token = "token-2" THEN << "user-2" >>
  ELSE << >>

\* the paths formidable may give to an uploaded file
TempPaths == 1..MaxTempFiles

\* res.status(status).json({ success, error, data }): the response is sent
\* and the handler is done with the request; the history keeps the user,
\* the resumeId and the file of the request answered
ResumeRespond(r, call, status, error, data) ==
  /\ resumeAnswer' =
       [ slot |-> r, handler |-> call.handler, status |-> status, error |-> error,
         data |-> data, user |-> call.user, resumeId |-> call.resumeId,
         file |-> call.file ]
  /\ resumeCalls' = [ resumeCalls EXCEPT ![r] = noResumeCall ]

\* the handler goes on to an await
ResumeAwait(r, call) ==
  /\ resumeCalls' = [ resumeCalls EXCEPT ![r] = call ]
  /\ UNCHANGED resumeAnswer

\* the catch clause of the handler
ResumeFailed(r, call) ==
  ResumeRespond(r, call, 500,
                IF call.handler = "upload-resume" THEN "Failed to process resume"
                ELSE "Failed to generate enhanced resume",
                noResumeData)

\* either handler: from the arrival of the request to the await of
\* getUserFromToken
ResumeRequest(r) ==
  /\ resumeCalls[r].pc = "idle"
  /\ \E handler \in { "upload-resume", "generate-resume" } :
     \E method \in Methods :
     \E token \in (IF method = "POST" THEN Tokens ELSE { "" }) :
     \E resumeId \in (IF method = "POST" /\ handler = "generate-resume"
                      THEN { << >> } \cup { << id >> : id \in Uuids } ELSE { << >> }) :
       LET call == [ noResumeCall EXCEPT !.pc = "received", !.handler = handler,
                                         !.token = token, !.resumeId = resumeId ]
       IN  IF method # "POST"
           THEN ResumeRespond(r, call, 405, "Method not allowed", noResumeData)
           ELSE IF token = ""
           THEN ResumeRespond(r, call, 401, "Authentication required", noResumeData)
           ELSE ResumeAwait(r, [ call EXCEPT !.pc = "user" ])
  /\ UNCHANGED resumeStore
  /\ UNCHANGED notResume

\* getUserFromToken settles: it resolves with the user of the token, or with
\* null where the token does not verify or the read of the user fails.
\* generate-resume then reads resumeId from the body.
UserSettles(r) ==
  /\ resumeCalls[r].pc = "user"
  /\ \E found \in BOOLEAN :
       LET user == IF found THEN tokenUser(resumeCalls[r].token) ELSE << >>
           call == [ resumeCalls[r] EXCEPT !.user = user ]
       IN  IF user = << >>
           THEN ResumeRespond(r, call, 401, "Invalid token", noResumeData)
           ELSE IF call.handler = "upload-resume"
           THEN ResumeAwait(r, [ call EXCEPT !.pc = "form" ])
           ELSE IF call.resumeId = << >>
           THEN ResumeRespond(r, call, 400, "Resume ID is required", noResumeData)
           ELSE ResumeAwait(r, [ call EXCEPT !.pc = "read" ])
  /\ UNCHANGED resumeStore
  /\ UNCHANGED notResume

\* upload-resume: form.parse(req) settles.  A file that passes the filter is
\* on disk by then; the handler reads it and awaits parseResumeFile.
FormSettles(r) ==
  /\ resumeCalls[r].pc = "form"
  /\ \E ok \in BOOLEAN :
       IF ~ok THEN ResumeFailed(r, resumeCalls[r]) /\ UNCHANGED resumeStore
       ELSE \E jobDescription \in BOOLEAN :
            \E file \in { << >> } \cup { << path >> : path \in TempPaths \ resumeStore.temp } :
              LET call == [ resumeCalls[r] EXCEPT !.file = file ]
              IN  /\ resumeStore' =
                       [ resumeStore EXCEPT !.temp = @ \cup { file[k] : k \in 1..Len(file) } ]
                  /\ IF file = << >> \/ ~jobDescription
                     THEN ResumeRespond(r, call, 400,
                                        "Resume file and job description are required",
                                        noResumeData)
                     ELSE ResumeAwait(r, [ call EXCEPT !.pc = "parse" ])
  /\ UNCHANGED notResume

\* upload-resume: parseResumeFile settles; extractDataFromText follows, and
\* the await of createIfNotExists
FileParseSettles(r) ==
  /\ resumeCalls[r].pc = "parse"
  /\ \E ok \in BOOLEAN :
       IF ~ok THEN ResumeFailed(r, resumeCalls[r])
       ELSE ResumeAwait(r, [ resumeCalls[r] EXCEPT !.pc = "container" ])
  /\ UNCHANGED resumeStore
  /\ UNCHANGED notResume

\* the uuidv4() in the name of a blob
BlobUuids == { "uuid-a" }

\* either handler: containerClient.createIfNotExists settles; the name of
\* the blob is made of the id of the user and a uuidv4()
ContainerSettles(r) ==
  /\ resumeCalls[r].pc = "container"
  /\ \E ok \in BOOLEAN :
       IF ~ok THEN ResumeFailed(r, resumeCalls[r])
       ELSE \E id \in BlobUuids :
              ResumeAwait(r, [ resumeCalls[r] EXCEPT
                                 !.pc = "blob",
                                 !.fileName = << << resumeCalls[r].user[1], id >> >> ])
  /\ UNCHANGED resumeStore
  /\ UNCHANGED notResume

\* blockBlobClient.uploadData(buffer, ...) into the container of resumes
withBlob(store, name) == [ store EXCEPT !.blobs = @ \cup { name } ]

\* blockBlobClient.upload(optimizedHtml, ...) into the container of enhanced
\* resumes
withEnhancedBlob(store, name) == [ store EXCEPT !.enhanced = @ \cup { name } ]

\* either handler: the upload of the blob settles
BlobSettles(r) ==
  /\ resumeCalls[r].pc = "blob"
  /\ LET call == resumeCalls[r]
     IN  \E ok \in BOOLEAN :
           IF ~ok THEN ResumeFailed(r, call) /\ UNCHANGED resumeStore
           ELSE IF call.handler = "upload-resume"
           THEN /\ resumeStore' = withBlob(resumeStore, call.fileName[1])
                /\ ResumeAwait(r, [ call EXCEPT !.pc = "analyze",
                                                !.done = Append(@, "blob") ])
           ELSE /\ resumeStore' = withEnhancedBlob(resumeStore, call.fileName[1])
                /\ ResumeAwait(r, [ call EXCEPT !.pc = "replace",
                                                !.done = Append(@, "enhanced blob") ])
  /\ UNCHANGED notResume

\* how a function of aiProcessor.ts settles: with the answer of the model,
\* with its fallback after an error it caught, or with an error it did not
\* catch
AiOutcomes == { "answer", "fallback", "rejected" }

\* upload-resume: analyzeJobDescription settles
AnalyzeSettles(r) ==
  /\ resumeCalls[r].pc = "analyze"
  /\ \E settled \in AiOutcomes :
       IF settled = "rejected" THEN ResumeFailed(r, resumeCalls[r])
       ELSE ResumeAwait(r, [ resumeCalls[r] EXCEPT !.pc = "enhance" ])
  /\ UNCHANGED resumeStore
  /\ UNCHANGED notResume

\* const resume: Resume = { id: resumeId, user_id: user.id, original_resume_url, ... }
newResume(id, user, url) ==
  [ id |-> id, user_id |-> user, original_resume_url |-> url,
    enhanced_resume_url |-> << >> ]

\* upload-resume: enhanceResumeWithAI settles; the resume record is built
\* with a uuidv4() as id
EnhanceSettles(r) ==
  /\ resumeCalls[r].pc = "enhance"
  /\ LET call == resumeCalls[r]
     IN  \E settled \in AiOutcomes :
           IF settled = "rejected" THEN ResumeFailed(r, call)
           ELSE \E id \in Uuids :
                  ResumeAwait(r, [ call EXCEPT
                                     !.pc = "create resume",
                                     !.resume = << newResume(id, call.user[1],
                                                             call.fileName[1]) >> ])
  /\ UNCHANGED resumeStore
  /\ UNCHANGED notResume

\* a create that is lost
withResumeLost(store, resume) == store

\* resumeContainer.items.create(resume)
withResume(store, resume) == [ store EXCEPT !.resumes = @ \cup { resume } ]

\* upload-resume: the create of the resume record settles; the container
\* takes no second item with an id it holds.  The job analysis is built with
\* a uuidv4() as id.
ResumeCreateSettles(r) ==
  /\ resumeCalls[r].pc = "create resume"
  /\ LET call == resumeCalls[r]
     IN  \E ok \in BOOLEAN :
           IF ~ok \/ \E held \in resumeStore.resumes : held.id = call.resume[1].id
           THEN ResumeFailed(r, call) /\ UNCHANGED resumeStore
           ELSE \E id \in Uuids :
                  /\ resumeStore' = withResume(resumeStore, call.resume[1])
                  /\ ResumeAwait(r, [ call EXCEPT !.pc = "create analysis",
                                                  !.analysisId = << id >>,
                                                  !.done = Append(@, "resume") ])
  /\ UNCHANGED notResume

\* jobAnalysisContainer.items.create(jobAnalysis)
withAnalysis(store, analysis) == [ store EXCEPT !.analyses = @ \cup { analysis } ]

\* an unlink that leaves the file
unlinkSyncLeavingFile(store, path) == store

\* fs.unlinkSync(file.filepath)
unlinkSync(store, path) == [ store EXCEPT !.temp = @ \ { path } ]

\* upload-resume: the create of the job analysis settles; then the temporary
\* file is unlinked, which may throw, and the response is sent
AnalysisCreateSettles(r) ==
  /\ resumeCalls[r].pc = "create analysis"
  /\ LET call == resumeCalls[r]
         analysis == [ id |-> call.analysisId[1], resume_id |-> call.resume[1].id ]
     IN  \E ok \in BOOLEAN :
           IF ~ok \/ \E held \in resumeStore.analyses : held.id = analysis.id
           THEN ResumeFailed(r, call) /\ UNCHANGED resumeStore
           ELSE \E unlinked \in BOOLEAN :
                  IF ~unlinked
                  THEN /\ resumeStore' = withAnalysis(resumeStore, analysis)
                       /\ ResumeFailed(r, [ call EXCEPT !.done = Append(@, "analysis") ])
                  ELSE /\ resumeStore' =
                            unlinkSync(withAnalysis(resumeStore, analysis), call.file[1])
                       /\ ResumeRespond(r, [ call EXCEPT
                                               !.done = @ \o << "analysis", "unlink" >> ],
                                        200, "",
                                        [ noResumeData EXCEPT
                                            !.resumeId = << call.resume[1].id >> ])
  /\ UNCHANGED notResume

\* resumeContainer.item(resumeId).read(): the resource, or undefined
readResume(store, id) ==
  IF \E held \in store.resumes : held.id = id
  THEN << CHOOSE held \in store.resumes : held.id = id >>
  ELSE << >>

\* a check that lets the resume of any user through
notFoundOnlyMissing(read, user) == read = << >>

\* !resume || resume.user_id !== user.id
notFound(read, user) == read = << >> \/ read[1].user_id # user

\* generate-resume: the read of the resume settles
ReadSettles(r) ==
  /\ resumeCalls[r].pc = "read"
  /\ LET call == resumeCalls[r]
     IN  \E ok \in BOOLEAN :
           IF ~ok THEN ResumeFailed(r, call)
           ELSE LET read == readResume(resumeStore, call.resumeId[1])
                IN  IF notFound(read, call.user[1])
                    THEN ResumeRespond(r, call, 404, "Resume not found", noResumeData)
                    ELSE ResumeAwait(r, [ call EXCEPT !.pc = "generate", !.resume = read ])
  /\ UNCHANGED resumeStore
  /\ UNCHANGED notResume

\* generate-resume: generateOptimizedResumeContent settles
GenerateSettles(r) ==
  /\ resumeCalls[r].pc = "generate"
  /\ LET call == resumeCalls[r]
     IN  \E settled \in AiOutcomes :
           IF settled = "rejected" THEN ResumeFailed(r, call)
           ELSE ResumeAwait(r, [ call EXCEPT !.pc = "container",
                                             !.html = << call.resume[1].id >> ])
  /\ UNCHANGED resumeStore
  /\ UNCHANGED notResume

\* resumeContainer.item(resumeId).replace(resume)
withResumeReplaced(store, resume) ==
  [ store EXCEPT !.resumes = { IF held.id = resume.id THEN resume ELSE held : held \in @ } ]

\* generate-resume: the replace of the resume record settles
ResumeReplaceSettles(r) ==
  /\ resumeCalls[r].pc = "replace"
  /\ LET call == resumeCalls[r]
         resume == [ call.resume[1] EXCEPT !.enhanced_resume_url = call.fileName ]
     IN  \E ok \in BOOLEAN :
           IF ~ok THEN ResumeFailed(r, call) /\ UNCHANGED resumeStore
           ELSE /\ resumeStore' = withResumeReplaced(resumeStore, resume)
                /\ ResumeRespond(r, [ call EXCEPT !.resume = << resume >>,
                                                  !.done = Append(@, "replace") ],
                                 200, "",
                                 [ resumeId |-> << resume.id >>,
                                   enhancedResumeUrl |-> call.fileName,
                                   htmlContent |-> call.html ])
  /\ UNCHANGED notResume

NextResume ==
  \/ \E r \in ResumeSlots : ResumeRequest(r)
  \/ \E r \in ResumeSlots : UserSettles(r)
  \/ \E r \in ResumeSlots : FormSettles(r)
  \/ \E r \in ResumeSlots : FileParseSettles(r)
  \/ \E r \in ResumeSlots : ContainerSettles(r)
  \/ \E r \in ResumeSlots : BlobSettles(r)
  \/ \E r \in ResumeSlots : AnalyzeSettles(r)
  \/ \E r \in ResumeSlots : EnhanceSettles(r)
  \/ \E r \in ResumeSlots : ResumeCreateSettles(r)
  \/ \E r \in ResumeSlots : AnalysisCreateSettles(r)
  \/ \E r \in ResumeSlots : ReadSettles(r)
  \/ \E r \in ResumeSlots : GenerateSettles(r)
  \/ \E r \in ResumeSlots : ResumeReplaceSettles(r)

InitResume == mode = "single" /\ InitLocals /\ InitOther

\* requests to the two resume handlers, one after the other
SpecResume == InitResume /\ [][NextResume]_vars

(***************************************************************************)
(* Properties of the resume handlers.                                      *)
(***************************************************************************)
\* this step sends the response of the handler running in slot r after its
\* first await
AnswerStep(r, handler, status) ==
  /\ resumeCalls[r].handler = handler
  /\ resumeCalls[r].pc # "idle"
  /\ resumeCalls'[r].pc = "idle"
  /\ resumeAnswer'.status = status

\* every job analysis refers to a resume record, and the original file of
\* every resume record is in the blob container
WritesInOrder(store) ==
  /\ \A analysis \in store.analyses : \E resume \in store.resumes : resume.id = analysis.resume_id
  /\ \A resume \in store.resumes : resume.original_resume_url \in store.blobs

\* nothing written is taken back
NoRollback ==
  /\ resumeStore.blobs \subseteq resumeStore'.blobs
  /\ resumeStore.analyses \subseteq resumeStore'.analyses
  /\ \A resume \in resumeStore.resumes : \E kept \in resumeStore'.resumes : kept.id = resume.id

\* C26: upload-resume writes the blob, then the resume record, then the job
\* analysis: in every state a job analysis exists only with the resume
\* record it refers to, and a resume record only with its original file in
\* the blob container; a 200 is sent only after all three writes, and a
\* failure of a later write answers 500 and leaves the earlier writes.
C26_WritesInOrder ==
  [][ /\ WritesInOrder(resumeStore')
      /\ NoRollback
      /\ \A r \in ResumeSlots :
           LET call == resumeCalls[r]
           IN  /\ AnswerStep(r, "upload-resume", 200) =>
                    /\ call.fileName[1] \in resumeStore'.blobs
                    /\ call.resume[1] \in resumeStore'.resumes
                    /\ [ id |-> call.analysisId[1], resume_id |-> call.resume[1].id ]
                         \in resumeStore'.analyses
               /\ (AnswerStep(r, "upload-resume", 500) /\ call.pc = "create analysis") =>
                    /\ call.resume[1] \in resumeStore'.resumes
                    /\ call.fileName[1] \in resumeStore'.blobs
               /\ (AnswerStep(r, "upload-resume", 500) /\ call.pc = "create resume") =>
                    /\ call.fileName[1] \in resumeStore'.blobs
                    /\ resumeStore'.resumes = resumeStore.resumes ]_vars

\* the create of the job analysis failed: a resume record with no job
\* analysis, and the answer 500
C26_ResumeWithoutAnalysis ==
  /\ resumeAnswer.handler = "upload-resume"
  /\ resumeAnswer.status = 500
  /\ resumeStore.analyses = {}
  /\ Cardinality(resumeStore.resumes) = 1
  /\ \A resume \in resumeStore.resumes : resume.original_resume_url \in resumeStore.blobs

\* the resume that the request names exists and belongs to the user of the
\* request
OwnResume(call) ==
  /\ call.resumeId # << >>
  /\ call.user # << >>
  /\ \E resume \in resumeStore.resumes :
       resume.id = call.resumeId[1] /\ resume.user_id = call.user[1]

\* C27: generate-resume returns HTML, uploads an enhanced resume or changes
\* a resume record only when the resume requested exists and its user_id is
\* the id of the user of the token; for the resume of another user the
\* answer is 404 'Resume not found', as for a missing resume, and nothing is
\* written.
C27_OnlyOwnResume ==
  [][ \A r \in ResumeSlots :
        LET call == resumeCalls[r]
        IN  (call.handler = "generate-resume" /\ resumeCalls'[r] # call) =>
              /\ resumeStore' # resumeStore => OwnResume(call)
              /\ (/\ resumeCalls'[r].pc = "idle"
                  /\ \/ resumeAnswer'.data.htmlContent # << >>
                     \/ resumeAnswer'.data.enhancedResumeUrl # << >>) => OwnResume(call)
              /\ (call.pc = "read" /\ ~OwnResume(call)) =>
                    /\ resumeStore' = resumeStore
                    /\ resumeAnswer'.status \in { 404, 500 }
                    /\ resumeAnswer'.status = 404 =>
                          /\ resumeAnswer'.error = "Resume not found"
                          /\ resumeAnswer'.data = noResumeData ]_vars

\* the resume of another user was requested and the answer is 404
C27_ForeignResumeNotFound ==
  /\ resumeAnswer.handler = "generate-resume"
  /\ resumeAnswer.status = 404
  /\ resumeAnswer.error = "Resume not found"
  /\ \E resume \in resumeStore.resumes :
       /\ resume.id = resumeAnswer.resumeId[1]
       /\ resume.user_id # resumeAnswer.user[1]
       /\ resume.enhanced_resume_url = << >>
  /\ resumeStore.enhanced = {}

\* C30: upload-resume removes the temporary file on the way to its 200 and
\* nowhere else: a 200 is sent in the step that unlinks the file, and an
\* answer 500 after the file was read leaves the file on disk.
C30_UnlinkOnSuccessOnly ==
  [][ /\ \A r \in ResumeSlots :
           LET call == resumeCalls[r]
           IN  /\ AnswerStep(r, "upload-resume", 200) =>
                    /\ call.file[1] \in resumeStore.temp
                    /\ call.file[1] \notin resumeStore'.temp
               /\ (AnswerStep(r, "upload-resume", 500) /\ call.file # << >>) =>
                    call.file[1] \in resumeStore'.temp
      /\ ~(resumeStore.temp \subseteq resumeStore'.temp) =>
           \E r \in ResumeSlots : AnswerStep(r, "upload-resume", 200) ]_vars

\* all writes were made, the unlink failed: the answer is 500 and the file
\* is on disk
C30_FileLeftAfterFailure ==
  /\ resumeAnswer.handler = "upload-resume"
  /\ resumeAnswer.status = 500
  /\ resumeAnswer.file # << >>
  /\ resumeAnswer.file[1] \in resumeStore.temp
  /\ resumeStore.blobs # {}
  /\ resumeStore.resumes = {}

(***************************************************************************)
(* The ATS score: calculateATSScore of aiProcessor.ts, the two paths of     *)
(* enhanceResumeWithAI that call it, and the job analysis of upload-resume  *)
(* that stores it as match_score.  A JavaScript number is << "number", k >>,*)
(* NaN or Infinity.                                                         *)
(***************************************************************************)
MaxSkills == 2

NaN == << "NaN" >>
Infinity == << "Infinity" >>
number(k) == << "number", k >>

\* names of resume skills, as extractSkills of fileProcessor.ts gives them
ResumeSkillNames == { java_kw, javascript_kw, sql_kw }

\* required skills, as extractSkillsFromText gives them
RequiredSkillNames ==
  { << "J","a","v","a" >>,     \* 'Java'
    << "S","Q","L" >> }         \* 'SQL'

\* ats_score in the JSON of the language model, before line 127 overrides it
ModelScores == { undefined, number(150) }

\* m / n * 100 of JavaScript, as NaN, Infinity or the fraction
\* << "fraction", numerator, denominator >>
matchPercentage(m, n) ==
  IF n = 0 THEN (IF m = 0 THEN NaN ELSE Infinity)
  ELSE << "fraction", 100 * m, n >>

\* Math.round: the nearest integer, halves upwards; NaN and Infinity stay
MathRound(x) ==
  IF x[1] = "fraction" THEN number((2 * x[2] + x[3]) \div (2 * x[3])) ELSE x

\* Math.min(x, k) for an integer k: NaN for NaN
MathMin(x, k) ==
  IF x = NaN THEN NaN
  ELSE IF x = Infinity THEN number(k)
  ELSE IF x[2] < k THEN x ELSE number(k)

\* resumeSkills.filter(skill => requiredSkills.some(required =>
\*   required.includes(skill) || skill.includes(required)))
matchedSkills(resumeSkills, requiredSkills) ==
  SelectSeq(resumeSkills,
            LAMBDA skill : \E k \in 1..Len(requiredSkills) :
                             \/ includes(requiredSkills[k], skill)
                             \/ includes(skill, requiredSkills[k]))

mapToLowerCase(names) == [ k \in 1..Len(names) |-> toLowerCase(names[k]) ]

calculateATSScore(resumeDataSkills, required_skills) ==
  LET resumeSkills == mapToLowerCase(resumeDataSkills)
      requiredSkills == mapToLowerCase(required_skills)
      matched == matchedSkills(resumeSkills, requiredSkills)
  IN  MathMin(MathRound(matchPercentage(Len(matched), Len(requiredSkills))), 100)

\* upload-resume has the extracted data and the job requirements and calls
\* enhanceResumeWithAI
CallEnhance ==
  /\ scoring.pc = "idle"
  /\ \E resumeDataSkills \in SeqsUpTo(ResumeSkillNames, MaxSkills),
        required_skills \in SeqsUpTo(RequiredSkillNames, MaxSkills) :
       scoring' = [ noScoring EXCEPT !.pc = "enhance",
                                     !.resumeSkills = resumeDataSkills,
                                     !.requiredSkills = required_skills ]
  /\ UNCHANGED notScore

\* the language model answered with JSON: its ats_score is replaced by the
\* score calculated
EnhanceByModel ==
  /\ scoring.pc = "enhance"
  /\ \E answered \in ModelScores :
       LET enhancements == [ ats_score |-> answered ]
           atsScore == calculateATSScore(scoring.resumeSkills, scoring.requiredSkills)
           overridden == [ enhancements EXCEPT !.ats_score = atsScore ]
       IN  scoring' = [ scoring EXCEPT !.pc = "store", !.path = "model",
                                       !.ats_score = overridden.ats_score ]
  /\ UNCHANGED notScore

\* ats_score of createFallbackEnhancements
createFallbackEnhancements(resumeDataSkills, required_skills) ==
  [ ats_score |-> calculateATSScore(resumeDataSkills, required_skills) ]

\* the request to the language model failed, or its answer was no JSON: the
\* catch returns the fallback
EnhanceByFallback ==
  /\ scoring.pc = "enhance"
  /\ scoring' = [ scoring EXCEPT
                    !.pc = "store", !.path = "fallback",
                    !.ats_score = createFallbackEnhancements(scoring.resumeSkills,
                                                             scoring.requiredSkills).ats_score ]
  /\ UNCHANGED notScore

\* jobAnalysis = { ..., match_score: aiEnhancements.ats_score }
StoreJobAnalysis ==
  /\ scoring.pc = "store"
  /\ scoring' = [ scoring EXCEPT !.pc = "idle", !.match_score = scoring.ats_score ]
  /\ UNCHANGED notScore

NextScore ==
  \/ CallEnhance
  \/ EnhanceByModel
  \/ EnhanceByFallback
  \/ StoreJobAnalysis

InitScore == mode = "single" /\ InitLocals /\ InitOther

SpecScore == InitScore /\ [][NextScore]_vars

isScore(value) == Len(value) = 2 /\ value[1] = "number" /\ value[2] \in 0..100

\* C28: the ats_score that enhanceResumeWithAI returns, on the path of the
\* language model and on the fallback path, and the match_score stored
\* from it, are integers from 0 to 100, for every list of resume skills and
\* every list of required skills, the empty one included.
C28_ScoreIsPercentage ==
  /\ scoring.ats_score # undefined => isScore(scoring.ats_score)
  /\ scoring.match_score # undefined => isScore(scoring.match_score)

\* with a required skill the score is an integer from 0 to 100, and with
\* none it is NaN
ScoreIsPercentageOrNaN ==
  scoring.ats_score # undefined =>
    IF scoring.requiredSkills = << >> THEN scoring.ats_score = NaN
    ELSE isScore(scoring.ats_score)

\* more resume skills match than skills are required: the score is capped
ScoreCapped ==
  /\ scoring.match_score = number(100)
  /\ Len(scoring.resumeSkills) > Len(scoring.requiredSkills)

\* no required skill: NaN is stored as match_score
NaNStored ==
  /\ scoring.requiredSkills = << >>
  /\ scoring.resumeSkills # << >>
  /\ scoring.match_score = NaN

(***************************************************************************)
(* verify-otp: the code is consumed before the user is looked up.          *)
(***************************************************************************)
\* this step is the handler of verify-otp in slot r calling verifyOTP
VerifyOtpCalls(r) ==
  /\ requests[r].pc = "idle"
  /\ \/ requests'[r].pc = "query"
     \/ /\ ResponseStep
        /\ lastResponse'.slot = r
        /\ lastResponse'.request.handler = "verify-otp"
        /\ lastResponse'.request.verifyArgs # << >>

\* the email of the request that the step of slot r is taken for
EmailOfStep(r) ==
  IF requests'[r].pc = "query" THEN requests'[r].email ELSE lastResponse'.request.email

\* a code of the email was accepted and no code was stored since
Consumed(email) == email \in DOMAIN accepted /\ accepted[email] # << >>

\* C29: verify-otp consumes the code before it looks the user up: when
\* verifyOTP returned true the entry is gone as the handler awaits
\* findOrCreateUser; when findOrCreateUser fails the response is 500
\* 'Internal server error' with no token and the entry is not put back; and
\* until storeOTP is called again for the email, every verify-otp for it is
\* answered 400 'Invalid or expired OTP'.
C29_OtpConsumedBeforeLookup ==
  [][ \A r \in Slots :
        /\ (VerifyOtpCalls(r) /\ requests'[r].pc = "query") =>
              requests'[r].email \notin DOMAIN otpStorage'
        /\ (/\ requests[r].handler = "verify-otp"
            /\ requests[r].pc \in { "query", "replace", "create" }
            /\ ResponseStep
            /\ lastResponse'.slot = r
            /\ lastResponse'.status # 200) =>
              /\ lastResponse'.status = 500
              /\ lastResponse'.message = "Internal server error"
              /\ lastResponse'.token = << >>
              /\ lastResponse'.user = << >>
              /\ otpStorage' = otpStorage
        /\ (VerifyOtpCalls(r) /\ Consumed(EmailOfStep(r))) =>
              /\ ResponseStep
              /\ lastResponse'.status = 400
              /\ lastResponse'.message = "Invalid or expired OTP" ]_vars

\* the code was accepted, findOrCreateUser failed and no user was created;
\* the same code was sent again and refused
C29_RetryRefused ==
  /\ RespondedTo("verify-otp")
  /\ lastResponse.status = 400
  /\ lastResponse.message = "Invalid or expired OTP"
  /\ Consumed(lastResponse.request.email)
  /\ accepted[lastResponse.request.email] = << lastResponse.request.otp >>
  /\ now <= expiresAt(storedAt[lastResponse.request.email].at)
  /\ users = << >>
  /\ \A r \in Slots : requests[r].pc = "idle"

=============================================================================
